---- MODULE Spec2Model ----
(***************************************************************************)
(* Model of cargo-lpatch: dependency classification (cargo_toml.rs), the   *)
(* override document .cargo/config.toml (config.rs), the layout of a       *)
(* checked-out tree (workspace.rs), the cleaning of repository URLs        *)
(* (crates_io.rs) and the lpatch run (main.rs: run_lpatch).                *)
(*                                                                         *)
(* Strings are sequences of tokens: two strings are equal exactly when     *)
(* their token sequences are equal.  Option<T> is a record with a `some`   *)
(* flag, Result<T> a record with an `ok` flag.  A HashMap is the set of    *)
(* its <<key, value>> pairs, so that "one value per key" is a property of  *)
(* the operations and not of the representation.                           *)
(***************************************************************************)
EXTENDS Naturals, Sequences, FiniteSets, TLC

VARIABLES
    dep_name,        \* classifier input: the dependency's key in the manifest
    dep_def,         \* classifier input: its DependencyDefinition
    dep_result,      \* result of parse_dependency_definition
    disk,            \* .cargo/config.toml and its directory on disk
    config,          \* the CargoConfig value held by the caller
    call,            \* the last CargoConfig call: operation, arguments, result
    before,          \* the CargoConfig value at the start of the last call
    loaded_from,     \* the file content read by the last load_or_create
    insertion_order, \* crate names of the registry group, oldest insertion first
    touched,         \* <<group, crate>> pairs addressed since the last load
    ncalls,          \* number of CargoConfig calls made so far
    writes,          \* number of times the file was opened for writing
    manifest,        \* the Cargo.toml of the project the tool runs in
    arg_name,        \* --name
    arg_dir,         \* --dir
    repo_tree,       \* the content of the repository named by the crate
    fs,              \* which of <dir> and <dir>/<crate> exist
    pc,              \* position of run_lpatch
    crate_info,      \* CrateInfo built by run_lpatch
    run_error,       \* the error run_lpatch returned
    registry_lookups, \* requests sent to crates.io
    clones,          \* URLs handed to GitOperations::clone, oldest first
    pulls,           \* calls of GitOperations::pull
    dirs_created,    \* calls of create_dir_all for <dir>
    actual_crate_path, \* the directory chosen by layout resolution
    wanted,          \* layout input: the crate name looked for in repo_tree
    found_path,      \* result of WorkspaceDetector::find_crate_path
    inventory,       \* result of WorkspaceDetector::list_workspace_crates
    similar,         \* result of find_similar_crate on the inventory
    repo_url,        \* cleaning input: the repository URL crates.io reported
    cleaned_url,     \* result of clean_repository_url
    cleaned_again,   \* result of clean_repository_url on cleaned_url
    git_url_checks,  \* results of is_git_url and is_valid_git_url on repo_url
    extracted_name,  \* result of extract_crate_name_from_git_url on repo_url
    ssh_agent_tried, \* GitOperations.ssh_agent_tried
    credential_env,  \* what the agent, ~/.ssh, git config and the remote hold
    offered,         \* credentials the callback returned, oldest first
    transport_state, \* the clone or pull the callback serves
    project_env,     \* the working directory, the directories that hold .cargo
                     \* or Cargo.toml, and the resolved crate directory
    place_pc,        \* position of the run between load_or_create and save
    placement,       \* the document locations used and the path string stored
    writer_pc,       \* position of fs::write inside CargoConfig::save
    observed         \* what another process last read from the config file

cls_vars == <<dep_name, dep_def, dep_result>>
cfg_vars == <<disk, config, call, before, loaded_from, insertion_order, touched, ncalls, writes>>
env_vars == <<manifest, arg_name, arg_dir, repo_tree>>
run_vars == <<env_vars, fs, pc, crate_info, run_error, registry_lookups, clones, pulls,
              dirs_created, actual_crate_path>>
layout_vars == <<wanted, found_path, inventory, similar>>
url_vars == <<repo_url, cleaned_url, cleaned_again, git_url_checks, extracted_name>>
save_vars == <<writer_pc, observed>>
auth_vars == <<ssh_agent_tried, credential_env, offered, transport_state>>
place_vars == <<project_env, place_pc, placement>>
fun_vars == <<layout_vars, url_vars, save_vars, auth_vars, place_vars, place_vars>>
vars == <<cls_vars, cfg_vars, run_vars, fun_vars>>

----------------------------------------------------------------------------
(* Option, Result, strings, HashMap                                        *)

EmptyStr == <<>>
None == [some |-> FALSE, val |-> EmptyStr]
Some(v) == [some |-> TRUE, val |-> v]
OptionOf(S) == {None} \cup {Some(s) : s \in S}

Ok(v) == [ok |-> TRUE, val |-> v]
Err(e) == [ok |-> FALSE, err |-> e]

Keys(m) == {e[1] : e \in m}
ContainsKey(m, k) == k \in Keys(m)
Get(m, k) == (CHOOSE e \in m : e[1] = k)[2]
HashMapInsert(m, k, v) == {e \in m : e[1] # k} \cup {<<k, v>>}
HashMapRemove(m, k) == {e \in m : e[1] # k}
UniqueKeys(m) == \A e1, e2 \in m : e1[1] = e2[1] => e1 = e2

Orderings(S) ==
    {s \in [1..Cardinality(S) -> S] : \A i, j \in 1..Cardinality(S) : s[i] = s[j] => i = j}

----------------------------------------------------------------------------
(* cargo_toml.rs: dependency classification                                *)

DepNames == {<<"serde">>, <<"other">>}
VersionStrs == {<<"1.0">>, <<"0.3">>}
UrlGithub == <<"https://", "github.com", "/", "u", "/", "serde">>
UrlGithubGit == UrlGithub \o <<".git">>
UrlGithubTree == UrlGithub \o <<"/tree/master">>
UrlGitlab == <<"https://", "gitlab.com", "/", "u", "/", "serde">>
UrlScp == <<"git@", "github.com", ":", "u", "/", "serde", ".git">>
UrlScpBad == <<"git@", "github.com", ":", "u", ":", "serde">>
UrlNoScheme == <<"www.", "example.org", "/", "serde">>
GitStrs == {UrlGithub, UrlScp}
PathStrs == {<<"..", "/", "serde">>}
RefStrs == {<<"dev">>}

Simple(v) == [kind |-> "Simple", version |-> Some(v), git |-> None, branch |-> None,
              tag |-> None, rev |-> None, path |-> None]
Detailed(v, g, b, t, r, p) == [kind |-> "Detailed", version |-> v, git |-> g, branch |-> b,
                               tag |-> t, rev |-> r, path |-> p]

DependencyDefinitions ==
    {Simple(v) : v \in VersionStrs} \cup
    {Detailed(v, g, b, t, r, p) :
        v \in OptionOf(VersionStrs), g \in OptionOf(GitStrs), b \in OptionOf(RefStrs),
        t \in OptionOf(RefStrs), r \in OptionOf(RefStrs), p \in OptionOf(PathStrs)}

Version(version) == [type |-> "Version", version |-> version]
Git(git, branch, tag, rev) == [type |-> "Git", git |-> git, branch |-> branch, tag |-> tag, rev |-> rev]
Path(path) == [type |-> "Path", path |-> path]
DependencyInfo(name, dep_type) == [name |-> name, dep_type |-> dep_type]

InvalidDependency(name) == [kind |-> "InvalidDependencyDefinition", name |-> name]

parse_dependency_definition_version_first(name, def) ==
    IF def.kind = "Simple" THEN Ok(DependencyInfo(name, Version(def.version.val)))
    ELSE IF def.version.some THEN Ok(DependencyInfo(name, Version(def.version.val)))
    ELSE IF def.path.some THEN Ok(DependencyInfo(name, Path(def.path.val)))
    ELSE IF def.git.some
         THEN Ok(DependencyInfo(name, Git(def.git.val, def.branch, def.tag, def.rev)))
    ELSE Err(InvalidDependency(name))

parse_dependency_definition(name, def) ==
    IF def.kind = "Simple" THEN Ok(DependencyInfo(name, Version(def.version.val)))
    ELSE IF def.git.some
         THEN Ok(DependencyInfo(name, Git(def.git.val, def.branch, def.tag, def.rev)))
    ELSE IF def.path.some THEN Ok(DependencyInfo(name, Path(def.path.val)))
    ELSE IF def.version.some THEN Ok(DependencyInfo(name, Version(def.version.val)))
    ELSE Err(InvalidDependency(name))

Unparsed == [ok |-> FALSE, err |-> [kind |-> "NotParsedYet", name |-> EmptyStr]]
NotCalled == [ok |-> FALSE, err |-> "not called"]
NotChecked == [called |-> FALSE, is_git_url |-> FALSE, is_valid_git_url |-> FALSE]

----------------------------------------------------------------------------
(* Paths (std::path::PathBuf) and their string form                        *)

PathBuf(abs, comps) == [abs |-> abs, comps |-> comps]

IsPathPrefix(base, p) ==
    /\ base.abs = p.abs
    /\ Len(base.comps) <= Len(p.comps)
    /\ SubSeq(p.comps, 1, Len(base.comps)) = base.comps

strip_prefix(p, base) ==
    IF IsPathPrefix(base, p)
    THEN Ok(PathBuf(FALSE, SubSeq(p.comps, Len(base.comps) + 1, Len(p.comps))))
    ELSE Err("StripPrefixError")

join(p, comp) == PathBuf(p.abs, Append(p.comps, comp))
join_all(p, comps) == PathBuf(p.abs, p.comps \o comps)

RECURSIVE JoinComps(_)
JoinComps(comps) ==
    IF comps = <<>> THEN <<>>
    ELSE IF Len(comps) = 1 THEN comps[1]
    ELSE comps[1] \o <<"/">> \o JoinComps(Tail(comps))

to_string_lossy(p) == IF p.abs THEN <<"/">> \o JoinComps(p.comps) ELSE JoinComps(p.comps)

Cwd == PathBuf(TRUE, << <<"w">> >>)
CurrentDirResults == {Ok(Cwd), Err("current_dir")}

LocalPaths ==
    { PathBuf(FALSE, << <<"crates">>, <<"serde">> >>),
      PathBuf(TRUE, << <<"w">>, <<"crates">>, <<"serde">> >>),
      PathBuf(TRUE, << <<"x">>, <<"serde">> >>),
      PathBuf(FALSE, << <<"crates">>, <<"fork">> >>) }

----------------------------------------------------------------------------
(* config.rs: the override document                                        *)

CratesIo == <<"crates-io">>
CrateNames == {<<"serde">>, <<"other">>}
GitSource == UrlGithub
PatchSources == {CratesIo, GitSource}

NoPatch == [some |-> FALSE, val |-> {}]
SomePatch(table) == [some |-> TRUE, val |-> table]

PatchConfig(path) == [path |-> path]
CargoConfig(patch, other) == [loaded |-> TRUE, patch |-> patch, other |-> other]
CargoConfigDefault == CargoConfig(NoPatch, {})
NotLoaded == [loaded |-> FALSE, patch |-> NoPatch, other |-> {}]

(* The file on disk.  state is "missing", "unreadable", "malformed" (not   *)
(* TOML, a patch entry without a path string, or a truncated write) or     *)
(* "document".  An entry of the patch section on disk is a table with a    *)
(* path string and possibly further fields (package, ...).                 *)
DiskEntry(path, extra) == [path |-> path, extra |-> extra]
DiskFile(dir_exists, state, patch, other) ==
    [dir_exists |-> dir_exists, state |-> state, patch |-> patch, other |-> other]

(* A file of length 0 is a document without any key; a file that holds     *)
(* only the beginning of a document is taken not to parse.                 *)

EmptyFile == DiskFile(TRUE, "document", NoPatch, {})
PartialFile == DiskFile(TRUE, "malformed", NoPatch, {})

deserialize_patch(table) ==
    {<<g[1], {<<e[1], PatchConfig(e[2].path)>> : e \in g[2]}>> : g \in table}

deserialize_other_dropped(other) == {}

deserialize_other(other) == other

load_from_file_defaulting(d) ==
    IF d.state \in {"unreadable", "malformed"} THEN Ok(CargoConfigDefault)
    ELSE Ok(CargoConfig(
            IF d.patch.some THEN SomePatch(deserialize_patch(d.patch.val)) ELSE NoPatch,
            deserialize_other(d.other)))

load_from_file(d) ==
    IF d.state = "unreadable" THEN Err("Failed to read config file")
    ELSE IF d.state = "malformed" THEN Err("Failed to parse config.toml")
    ELSE Ok(CargoConfig(
            IF d.patch.some THEN SomePatch(deserialize_patch(d.patch.val)) ELSE NoPatch,
            deserialize_other(d.other)))

create_new_writes_file(d, mkdir_ok) ==
    IF ~d.dir_exists /\ ~mkdir_ok
    THEN [disk |-> d, result |-> Err("Failed to create .cargo directory")]
    ELSE [disk |-> EmptyFile, result |-> Ok(CargoConfigDefault)]

(* create_new: the directory is created when missing; the file is not.     *)
create_new(d, mkdir_ok) ==
    IF ~d.dir_exists /\ ~mkdir_ok
    THEN [disk |-> d, result |-> Err("Failed to create .cargo directory")]
    ELSE [disk |-> [d EXCEPT !.dir_exists = TRUE], result |-> Ok(CargoConfigDefault)]

load_or_create(d, mkdir_ok) ==
    IF d.state # "missing"
    THEN [disk |-> d, result |-> load_from_file(d)]
    ELSE create_new(d, mkdir_ok)

insert_patch_config_keep_old(source_patches, crate_name, path_str) ==
    source_patches \cup {<<crate_name, PatchConfig(path_str)>>}

insert_patch_config(source_patches, crate_name, path_str) ==
    HashMapInsert(source_patches, crate_name, PatchConfig(path_str))

relative_path(local_path, current_dir) ==
    IF local_path.abs
    THEN IF strip_prefix(local_path, current_dir).ok
         THEN strip_prefix(local_path, current_dir).val
         ELSE local_path
    ELSE local_path

add_patch_with_source(self, crate_name, local_path, patch_source, current_dir) ==
    LET table0 == IF self.patch.some THEN self.patch.val ELSE {}
        table1 == IF ContainsKey(table0, patch_source) THEN table0
                  ELSE HashMapInsert(table0, patch_source, {})
        source_patches == Get(table1, patch_source)
    IN  IF ~current_dir.ok
        THEN [config |-> [self EXCEPT !.patch = SomePatch(table1)],
              result |-> Err("Failed to get current directory")]
        ELSE LET path_str == to_string_lossy(relative_path(local_path, current_dir.val))
                 table2 == HashMapInsert(table1, patch_source,
                              insert_patch_config(source_patches, crate_name, path_str))
             IN  [config |-> [self EXCEPT !.patch = SomePatch(table2)], result |-> Ok("unit")]

add_patch(self, crate_name, local_path, current_dir) ==
    add_patch_with_source(self, crate_name, local_path, CratesIo, current_dir)

prune_patch_table_never(table) == SomePatch(table)

prune_patch_table(table) == IF table = {} THEN NoPatch ELSE SomePatch(table)

remove_patch(self, crate_name) ==
    IF self.patch.some /\ ContainsKey(self.patch.val, CratesIo)
    THEN LET crates_io_patches == Get(self.patch.val, CratesIo)
             removed == ContainsKey(crates_io_patches, crate_name)
             remaining == HashMapRemove(crates_io_patches, crate_name)
             table1 == IF remaining = {} THEN HashMapRemove(self.patch.val, CratesIo)
                       ELSE HashMapInsert(self.patch.val, CratesIo, remaining)
         IN  [config |-> [self EXCEPT !.patch = prune_patch_table(table1)], result |-> removed]
    ELSE [config |-> self, result |-> FALSE]

(* HashMap iteration order is unspecified: list_patches may return the     *)
(* pairs of the registry group in any order.                               *)
list_patches(self) ==
    IF self.patch.some /\ ContainsKey(self.patch.val, CratesIo)
    THEN Orderings({<<e[1], e[2].path>> : e \in Get(self.patch.val, CratesIo)})
    ELSE {<<>>}

serialize_patch(table) ==
    {<<g[1], {<<e[1], DiskEntry(e[2].path, {})>> : e \in g[2]}>> : g \in table}

to_string_pretty(self) ==
    [patch |-> IF self.patch.some THEN SomePatch(serialize_patch(self.patch.val)) ELSE NoPatch,
     other |-> self.other]

(* fs::write is File::create, which truncates the file, followed by        *)
(* write_all.  It can fail before the file is opened (file unchanged),     *)
(* after the truncation (EmptyFile) or part way through the writing        *)
(* (PartialFile).                                                          *)
NewContent(self) ==
    DiskFile(TRUE, "document", to_string_pretty(self).patch, to_string_pretty(self).other)

WriteOutcomes == {"written", "not_opened", "emptied", "truncated"}

save(self, d, outcome) ==
    IF ~d.dir_exists \/ outcome = "not_opened"
    THEN [disk |-> d, result |-> Err("Failed to write config file")]
    ELSE IF outcome = "emptied"
    THEN [disk |-> EmptyFile, result |-> Err("Failed to write config file")]
    ELSE IF outcome = "truncated"
    THEN [disk |-> PartialFile, result |-> Err("Failed to write config file")]
    ELSE [disk |-> NewContent(self), result |-> Ok("unit")]

----------------------------------------------------------------------------
(* main.rs, crates_io.rs: strings that name repositories                   *)

starts_with(s, prefix) ==
    Len(prefix) <= Len(s) /\ SubSeq(s, 1, Len(prefix)) = prefix
ends_with(s, suffix) ==
    Len(suffix) <= Len(s) /\ SubSeq(s, Len(s) - Len(suffix) + 1, Len(s)) = suffix
contains(s, pat) ==
    \E i \in 1..(Len(s) + 1) : i + Len(pat) - 1 <= Len(s) /\ SubSeq(s, i, i + Len(pat) - 1) = pat

is_git_url(s) ==
    \/ starts_with(s, <<"http://">>)
    \/ starts_with(s, <<"https://">>)
    \/ starts_with(s, <<"git://">>)
    \/ starts_with(s, <<"ssh://">>)
    \/ contains(s, <<"git@">>)

is_valid_git_url(url) ==
    \/ starts_with(url, <<"http://">>)
    \/ starts_with(url, <<"https://">>)
    \/ starts_with(url, <<"git://">>)
    \/ starts_with(url, <<"ssh://">>)
    \/ contains(url, <<"git@">>)

(* str::replace(pat, ""): every occurrence of the token is removed.        *)
replace_with_empty(s, tok) == SelectSeq(s, LAMBDA t : t # tok)

clean_repository_url(url) ==
    LET c1 == IF ends_with(url, <<"/tree/master">>)
              THEN replace_with_empty(url, "/tree/master") ELSE url
        c2 == IF ends_with(c1, <<"/tree/main">>)
              THEN replace_with_empty(c1, "/tree/main") ELSE c1
        c3 == IF contains(c2, <<"github.com">>) /\ ~ends_with(c2, <<".git">>)
              THEN c2 \o <<".git">> ELSE c2
    IN  IF ~is_valid_git_url(c3) THEN Err("Invalid repository URL") ELSE Ok(c3)

(* What crates.io answers for a crate name: the request fails, the status  *)
(* is not a success, the crate has no repository, or it has one.           *)
RegistryAnswers ==
    {[kind |-> k, repository |-> EmptyStr] : k \in {"transport_error", "http_error", "no_repository"}}
    \cup {[kind |-> "repository", repository |-> u] :
            u \in {UrlGithub, UrlGithubTree, UrlGitlab, UrlNoScheme}}

get_repository_url(answer) ==
    IF answer.kind = "repository" THEN clean_repository_url(answer.repository)
    ELSE IF answer.kind = "no_repository" THEN Err("Crate does not have a repository URL")
    ELSE IF answer.kind = "http_error" THEN Err("Failed to fetch crate info")
    ELSE Err("request failed")

(* The path of a URL as url::Url reports it, split at '/'.                 *)
RECURSIVE SplitAt(_, _)
SplitAt(s, sep) ==
    IF \A i \in 1..Len(s) : s[i] # sep THEN <<s>>
    ELSE LET i == CHOOSE k \in 1..Len(s) : s[k] = sep /\ \A j \in 1..(k - 1) : s[j] # sep
         IN  <<SubSeq(s, 1, i - 1)>> \o SplitAt(SubSeq(s, i + 1, Len(s)), sep)

RECURSIVE ExpandTokens(_)
ExpandTokens(s) ==
    IF s = <<>> THEN <<>>
    ELSE (IF s[1] = "/tree/master" THEN <<"/", "tree", "/", "master">>
          ELSE IF s[1] = "/tree/main" THEN <<"/", "tree", "/", "main">>
          ELSE IF s[1] = "/tree/dev" THEN <<"/", "tree", "/", "dev">>
          ELSE <<s[1]>>) \o ExpandTokens(Tail(s))

RECURSIVE trim_start_matches(_, _)
trim_start_matches(s, tok) ==
    IF s # <<>> /\ s[1] = tok THEN trim_start_matches(Tail(s), tok) ELSE s

RECURSIVE trim_end_matches(_, _)
trim_end_matches(s, tok) ==
    IF s # <<>> /\ s[Len(s)] = tok THEN trim_end_matches(SubSeq(s, 1, Len(s) - 1), tok) ELSE s

Schemes == {"http://", "https://", "git://", "ssh://"}

UserTokens == {"git@", "alice@"}

(* Url::parse: a scheme, an optional user, a host, then the path.  A ':'   *)
(* after the host announces a port, which must be a number.                *)
url_path(url) ==
    LET authority == IF Len(url) >= 2 /\ url[2] \in UserTokens
                     THEN SubSeq(url, 3, Len(url)) ELSE SubSeq(url, 2, Len(url))
    IN  IF /\ Len(url) >= 2
           /\ url[1] \in Schemes
           /\ authority # <<>>
           /\ authority[1] \notin {"/", ":"}
           /\ (Len(authority) >= 2 => authority[2] # ":")
        THEN Ok(ExpandTokens(Tail(authority)))
        ELSE Err("Failed to parse URL")

extract_crate_name_keep_suffix(git_url) ==
    LET parts == SplitAt(git_url, ":")
        url == IF starts_with(git_url, <<"git@">>)
               THEN IF Len(parts) # 2 THEN Err("Invalid git SSH URL format")
                    ELSE Ok(<<"https://">> \o replace_with_empty(parts[1], "git@")
                              \o <<"/">> \o parts[2])
               ELSE Ok(git_url)
    IN  IF ~url.ok THEN url
        ELSE IF ~url_path(url.val).ok THEN url_path(url.val)
        ELSE LET path == url_path(url.val).val
                 segs == SplitAt(trim_start_matches(path, "/"), "/")
             IN  Ok(segs[Len(segs)])

extract_crate_name_from_git_url(git_url) ==
    LET parts == SplitAt(git_url, ":")
        url == IF starts_with(git_url, <<"git@">>)
               THEN IF Len(parts) # 2 THEN Err("Invalid git SSH URL format")
                    ELSE Ok(<<"https://">> \o replace_with_empty(parts[1], "git@")
                              \o <<"/">> \o parts[2])
               ELSE Ok(git_url)
    IN  IF ~url.ok THEN url
        ELSE IF ~url_path(url.val).ok THEN url_path(url.val)
        ELSE LET path == url_path(url.val).val
                 segs == SplitAt(trim_end_matches(trim_start_matches(path, "/"), ".git"), "/")
             IN  Ok(segs[Len(segs)])

----------------------------------------------------------------------------
(* workspace.rs: the layout of a checked-out tree                          *)

(* A manifest file: state is "missing", "malformed" or "ok".               *)
Manifest(state, workspace, package) ==
    [state |-> state, workspace |-> workspace, package |-> package]
NoWorkspace == [some |-> FALSE, members |-> <<>>, exclude |-> <<>>]
Workspace(members, exclude) == [some |-> TRUE, members |-> members, exclude |-> exclude]
NoManifest == Manifest("missing", NoWorkspace, None)
PackageManifest(name) == Manifest("ok", NoWorkspace, Some(name))
MalformedManifest == Manifest("malformed", NoWorkspace, None)

(* A tree: the root manifest and the entries below the root, in the order  *)
(* in which fs::read_dir reports them.                                     *)
DirEntry(path, is_dir, cargo_toml) == [path |-> path, is_dir |-> is_dir, manifest |-> cargo_toml]
Tree(root, entries) == [root |-> root, entries |-> entries]

EntryAt(tree, comps) ==
    {i \in 1..Len(tree.entries) : tree.entries[i].path = comps}
PathExists(tree, comps) ==
    \/ comps = <<>>
    \/ \E i \in 1..Len(tree.entries) :
         LET p == tree.entries[i].path
         IN  Len(comps) <= Len(p) /\ SubSeq(p, 1, Len(comps)) = comps
IsDir(tree, comps) ==
    \/ comps = <<>>
    \/ \E i \in 1..Len(tree.entries) :
         LET p == tree.entries[i].path
         IN  \/ p = comps /\ tree.entries[i].is_dir
             \/ Len(comps) < Len(p) /\ SubSeq(p, 1, Len(comps)) = comps
ManifestAt(tree, comps) ==
    IF comps = <<>> THEN tree.root
    ELSE IF EntryAt(tree, comps) = {} THEN NoManifest
    ELSE tree.entries[CHOOSE i \in EntryAt(tree, comps) : TRUE].manifest

PatternComps(pattern) == SelectSeq(SplitAt(pattern, "/"), LAMBDA part : part # <<>>)
StarTokens == {"*", "in*"}
ContainsStar(pattern) == \E i \in 1..Len(pattern) : pattern[i] \in StarTokens

RECURSIVE ReadDir(_, _, _)
ReadDir(tree, parent, i) ==
    IF i > Len(tree.entries) THEN <<>>
    ELSE LET e == tree.entries[i]
         IN  (IF Len(e.path) = Len(parent) + 1 /\ SubSeq(e.path, 1, Len(parent)) = parent
              THEN <<e>> ELSE <<>>) \o ReadDir(tree, parent, i + 1)

RECURSIVE DirPaths(_)
DirPaths(es) ==
    IF es = <<>> THEN <<>>
    ELSE (IF es[1].is_dir THEN <<es[1].path>> ELSE <<>>) \o DirPaths(Tail(es))

expand_glob_pattern(tree, pattern) ==
    LET comps == PatternComps(pattern)
    IN  IF ContainsStar(pattern)
        THEN LET parent == SubSeq(comps, 1, Len(comps) - 1)
             IN  IF PathExists(tree, parent) /\ IsDir(tree, parent) /\ ends_with(pattern, <<"/", "*">>)
                 THEN DirPaths(ReadDir(tree, parent, 1))
                 ELSE <<>>
        ELSE IF PathExists(tree, comps) THEN <<comps>> ELSE <<>>

RECURSIVE ExpandAll(_, _)
ExpandAll(tree, patterns) ==
    IF patterns = <<>> THEN <<>>
    ELSE expand_glob_pattern(tree, patterns[1]) \o ExpandAll(tree, Tail(patterns))

InSeq(x, sq) == \E i \in 1..Len(sq) : sq[i] = x

RECURSIVE RetainNotExcluded(_, _, _)
RetainNotExcluded(tree, candidates, excludes) ==
    IF excludes = <<>> THEN candidates
    ELSE LET exclude_paths == expand_glob_pattern(tree, excludes[1])
         IN  RetainNotExcluded(tree,
                 SelectSeq(candidates, LAMBDA c : ~InSeq(c, exclude_paths)), Tail(excludes))

candidate_paths_ignoring_exclude(tree, workspace) ==
    ExpandAll(tree, workspace.members)

candidate_paths(tree, workspace) ==
    RetainNotExcluded(tree, ExpandAll(tree, workspace.members), workspace.exclude)

is_target_crate(tree, comps, crate_name) ==
    LET m == ManifestAt(tree, comps)
    IN  IF m.state = "missing" THEN Ok(FALSE)
        ELSE IF m.state = "malformed" THEN Err("Failed to parse Cargo.toml")
        ELSE IF m.package.some THEN Ok(m.package.val = crate_name)
        ELSE Ok(FALSE)

get_crate_name(tree, comps) ==
    LET m == ManifestAt(tree, comps)
    IN  IF m.state = "missing" THEN Err("Failed to read Cargo.toml")
        ELSE IF m.state = "malformed" THEN Err("Failed to parse Cargo.toml")
        ELSE IF m.package.some THEN Ok(m.package.val)
        ELSE Err("No package section found")

RECURSIVE FirstTarget(_, _, _)
FirstTarget(tree, candidates, crate_name) ==
    IF candidates = <<>> THEN Err("Crate not found in workspace members")
    ELSE LET t == is_target_crate(tree, candidates[1], crate_name)
         IN  IF ~t.ok THEN t
             ELSE IF t.val THEN Ok(candidates[1])
             ELSE FirstTarget(tree, Tail(candidates), crate_name)

find_crate_in_workspace(tree, crate_name, workspace) ==
    FirstTarget(tree, candidate_paths(tree, workspace), crate_name)

find_crate_path(tree, crate_name) ==
    IF tree.root.state = "missing" THEN Err("No Cargo.toml found in repository root")
    ELSE IF tree.root.state = "malformed" THEN Err("Failed to parse Cargo.toml")
    ELSE IF tree.root.workspace.some
         THEN find_crate_in_workspace(tree, crate_name, tree.root.workspace)
    ELSE LET t == is_target_crate(tree, <<>>, crate_name)
         IN  IF ~t.ok THEN t
             ELSE IF t.val THEN Ok(<<>>)
             ELSE Err("Repository is not a workspace and does not contain crate")

RECURSIVE NamedCrates(_, _)
NamedCrates(tree, candidates) ==
    IF candidates = <<>> THEN <<>>
    ELSE (IF get_crate_name(tree, candidates[1]).ok
          THEN << <<get_crate_name(tree, candidates[1]).val, candidates[1]>> >>
          ELSE <<>>) \o NamedCrates(tree, Tail(candidates))

list_workspace_crates(tree) ==
    IF tree.root.state = "missing" THEN Ok(<<>>)
    ELSE IF tree.root.state = "malformed" THEN Err("Failed to parse Cargo.toml")
    ELSE IF tree.root.workspace.some
         THEN Ok(NamedCrates(tree, candidate_paths(tree, tree.root.workspace)))
    ELSE Ok(NamedCrates(tree, << <<>> >>))

(* main.rs: the similarity fallback                                        *)
LowerToken(t) == IF t = "Serde" THEN "serde" ELSE t
to_lowercase(s) == [i \in 1..Len(s) |-> LowerToken(s[i])]

FirstMatch(crates, matches) ==
    IF \E i \in 1..Len(crates) : matches[i]
    THEN Some(crates[CHOOSE i \in 1..Len(crates) : matches[i] /\ \A j \in 1..(i - 1) : ~matches[j]])
    ELSE None

find_similar_crate_single_pass(target_name, crates) ==
    LET target == to_lowercase(target_name)
        name(i) == to_lowercase(crates[i][1])
        any == [i \in 1..Len(crates) |->
                   \/ name(i) = target
                   \/ contains(name(i), target) \/ contains(target, name(i))
                   \/ starts_with(name(i), target) \/ starts_with(target, name(i))]
    IN  FirstMatch(crates, any)

find_similar_crate(target_name, crates) ==
    LET target == to_lowercase(target_name)
        name(i) == to_lowercase(crates[i][1])
        same == [i \in 1..Len(crates) |-> name(i) = target]
        within == [i \in 1..Len(crates) |-> contains(name(i), target) \/ contains(target, name(i))]
        prefix == [i \in 1..Len(crates) |->
                      starts_with(name(i), target) \/ starts_with(target, name(i))]
    IN  IF FirstMatch(crates, same).some THEN FirstMatch(crates, same)
        ELSE IF FirstMatch(crates, within).some THEN FirstMatch(crates, within)
        ELSE FirstMatch(crates, prefix)

----------------------------------------------------------------------------
(* A session on the override document: the calls a caller of config.rs     *)
(* can make, in any order, on one CargoConfig value.                       *)

MaxCalls == 3

Call(op, crate, source, path, ok, removed, listed) ==
    [op |-> op, crate |-> crate, source |-> source, path |-> path, ok |-> ok,
     removed |-> removed, listed |-> listed]
NoPath == PathBuf(FALSE, <<>>)
NoCall == Call("none", EmptyStr, EmptyStr, NoPath, TRUE, FALSE, <<>>)

DiskPathStr == <<"vendor", "/", "serde">>
ExtraFields == {<<"package", "serde_fork">>}
OtherSections == {<<"build", "jobs = 2">>, <<"paths", "[\"vendor\"]">>}
DiskGroups ==
    { {},
      {<<(<<"serde">>), DiskEntry(DiskPathStr, {})>>},
      {<<(<<"serde">>), DiskEntry(DiskPathStr, {})>>, <<(<<"other">>), DiskEntry(DiskPathStr, {})>>},
      {<<(<<"other">>), DiskEntry(DiskPathStr, ExtraFields)>>} }
DiskTables ==
    {{}} \cup {{<<CratesIo, g>>} : g \in DiskGroups}
         \cup {{<<GitSource, g>>} : g \in DiskGroups}
         \cup {{<<CratesIo, g>>, <<GitSource, h>>} : g \in DiskGroups, h \in DiskGroups \ {{}}}
DiskFiles ==
    {DiskFile(d, "missing", NoPatch, {}) : d \in BOOLEAN}
    \cup {DiskFile(TRUE, s, NoPatch, {}) : s \in {"unreadable", "malformed"}}
    \cup {DiskFile(TRUE, "document", p, o) :
            p \in {NoPatch} \cup {SomePatch(t) : t \in DiskTables}, o \in {{}, OtherSections}}

RegistryNames(cfg) ==
    IF cfg.patch.some /\ ContainsKey(cfg.patch.val, CratesIo)
    THEN Keys(Get(cfg.patch.val, CratesIo)) ELSE {}

InitConfig ==
    /\ disk \in DiskFiles
    /\ config = NotLoaded
    /\ call = NoCall
    /\ before = NotLoaded
    /\ loaded_from = disk
    /\ insertion_order = <<>>
    /\ touched = {}
    /\ ncalls = 0
    /\ writes = 0

DoLoadOrCreate ==
    /\ ncalls < MaxCalls
    /\ \E mkdir_ok \in BOOLEAN :
         LET r == load_or_create(disk, mkdir_ok)
             cfg == IF r.result.ok THEN r.result.val ELSE NotLoaded
         IN  /\ disk' = r.disk
             /\ config' = cfg
             /\ call' = Call("load", EmptyStr, EmptyStr, NoPath, r.result.ok, FALSE, <<>>)
             /\ before' = config
             /\ loaded_from' = disk
             /\ insertion_order' \in Orderings(RegistryNames(cfg))
             /\ touched' = {}
             /\ ncalls' = ncalls + 1
             /\ UNCHANGED writes

OrderAfterInsert(order, source, crate_name) ==
    IF source = CratesIo /\ \A i \in 1..Len(order) : order[i] # crate_name
    THEN Append(order, crate_name) ELSE order

DoAddPatchWithSource(crate_name, local_path, patch_source) ==
    /\ ncalls < MaxCalls
    /\ config.loaded
    /\ \E current_dir \in CurrentDirResults :
         LET r == add_patch_with_source(config, crate_name, local_path, patch_source, current_dir)
         IN  /\ config' = r.config
             /\ call' = Call("add_patch_with_source", crate_name, patch_source, local_path,
                             r.result.ok, FALSE, <<>>)
             /\ before' = config
             /\ insertion_order' = IF r.result.ok
                                   THEN OrderAfterInsert(insertion_order, patch_source, crate_name)
                                   ELSE insertion_order
             /\ touched' = touched \cup {<<patch_source, crate_name>>}
             /\ ncalls' = ncalls + 1
             /\ UNCHANGED <<disk, loaded_from, writes>>

DoAddPatch(crate_name, local_path) ==
    /\ ncalls < MaxCalls
    /\ config.loaded
    /\ \E current_dir \in CurrentDirResults :
         LET r == add_patch(config, crate_name, local_path, current_dir)
         IN  /\ config' = r.config
             /\ call' = Call("add_patch", crate_name, CratesIo, local_path, r.result.ok, FALSE, <<>>)
             /\ before' = config
             /\ insertion_order' = IF r.result.ok
                                   THEN OrderAfterInsert(insertion_order, CratesIo, crate_name)
                                   ELSE insertion_order
             /\ touched' = touched \cup {<<CratesIo, crate_name>>}
             /\ ncalls' = ncalls + 1
             /\ UNCHANGED <<disk, loaded_from, writes>>

DoSave ==
    /\ ncalls < MaxCalls
    /\ config.loaded
    /\ \E outcome \in WriteOutcomes :
         LET r == save(config, disk, outcome)
         IN  /\ disk' = r.disk
             /\ call' = Call("save", EmptyStr, EmptyStr, NoPath, r.result.ok, FALSE, <<>>)
             /\ before' = config
             /\ ncalls' = ncalls + 1
             /\ writes' = IF r.disk = disk /\ ~r.result.ok THEN writes ELSE writes + 1
             /\ UNCHANGED <<config, loaded_from, insertion_order, touched>>

LoadOrCreate == DoLoadOrCreate /\ UNCHANGED <<cls_vars, fun_vars, run_vars>>

AddPatchWithSource ==
    /\ \E crate_name \in CrateNames, local_path \in LocalPaths, patch_source \in PatchSources :
         DoAddPatchWithSource(crate_name, local_path, patch_source)
    /\ UNCHANGED <<cls_vars, fun_vars, run_vars>>

AddPatch ==
    /\ \E crate_name \in CrateNames, local_path \in LocalPaths : DoAddPatch(crate_name, local_path)
    /\ UNCHANGED <<cls_vars, fun_vars, run_vars>>

RemovePatch ==
    /\ ncalls < MaxCalls
    /\ config.loaded
    /\ \E crate_name \in CrateNames :
         LET r == remove_patch(config, crate_name)
         IN  /\ config' = r.config
             /\ call' = Call("remove_patch", crate_name, CratesIo, NoPath, TRUE, r.result, <<>>)
             /\ before' = config
             /\ insertion_order' = SelectSeq(insertion_order, LAMBDA n : n # crate_name)
             /\ touched' = touched \cup {<<CratesIo, crate_name>>}
             /\ ncalls' = ncalls + 1
             /\ UNCHANGED <<disk, loaded_from, writes>>
    /\ UNCHANGED <<cls_vars, fun_vars, run_vars>>

ListPatches ==
    /\ ncalls < MaxCalls
    /\ config.loaded
    /\ \E patches \in list_patches(config) :
         /\ call' = Call("list_patches", EmptyStr, CratesIo, NoPath, TRUE, FALSE, patches)
         /\ before' = config
         /\ ncalls' = ncalls + 1
         /\ UNCHANGED <<disk, config, loaded_from, insertion_order, touched, writes>>
    /\ UNCHANGED <<cls_vars, fun_vars, run_vars>>

Save == DoSave /\ UNCHANGED <<cls_vars, fun_vars, run_vars>>

----------------------------------------------------------------------------
(* main.rs: run_lpatch                                                     *)

CrateInfo(name, repository_url, is_git_ref, original_git_url) ==
    [name |-> name, repository_url |-> repository_url, is_git_ref |-> is_git_ref,
     original_git_url |-> original_git_url]
NoCrateInfo == CrateInfo(EmptyStr, EmptyStr, FALSE, None)
NoError == "none"

(* cargo_toml.rs: find_dependency over dependencies, dev-dependencies and  *)
(* build-dependencies, in that order; a declaration that does not parse is *)
(* logged and left out of the list.                                        *)
parse_dependencies(deps) ==
    {parse_dependency_definition(e[1], e[2]).val :
        e \in {d \in deps : parse_dependency_definition(d[1], d[2]).ok}}

FindIn(section, name) ==
    IF section.some /\ \E d \in parse_dependencies(section.val) : d.name = name
    THEN Some(CHOOSE d \in parse_dependencies(section.val) : d.name = name)
    ELSE None

find_dependency(m, name) ==
    IF FindIn(m.dependencies, name).some THEN FindIn(m.dependencies, name)
    ELSE IF FindIn(m.dev_dependencies, name).some THEN FindIn(m.dev_dependencies, name)
    ELSE FindIn(m.build_dependencies, name)

Resolution(next, info, error) == [next |-> next, crate_info |-> info, error |-> error]

resolve_path_dependency_by_registry(dep_info) ==
    Resolution("lookup", CrateInfo(dep_info.name, EmptyStr, FALSE, None), NoError)

resolve_path_dependency(dep_info) ==
    Resolution("failed", NoCrateInfo, "Path dependency cannot be patched as it's already local")

git_patch_source_none(git) == None

git_patch_source(git) == Some(git)

(* Lines 169-250: what the match on the dependency decides.                *)
resolve_source(dependency_info, name) ==
    IF dependency_info.some
    THEN LET dep_info == dependency_info.val
         IN  IF dep_info.dep_type.type = "Git"
             THEN Resolution("mkdir",
                     CrateInfo(dep_info.name, dep_info.dep_type.git, TRUE,
                               git_patch_source(dep_info.dep_type.git)), NoError)
             ELSE IF dep_info.dep_type.type = "Version"
             THEN Resolution("lookup", CrateInfo(dep_info.name, EmptyStr, FALSE, None), NoError)
             ELSE resolve_path_dependency(dep_info)
    ELSE IF is_git_url(name)
         THEN IF extract_crate_name_from_git_url(name).ok
              THEN Resolution("mkdir",
                      CrateInfo(extract_crate_name_from_git_url(name).val, name, TRUE,
                                git_patch_source(name)), NoError)
              ELSE Resolution("failed", NoCrateInfo, extract_crate_name_from_git_url(name).err)
    ELSE Resolution("lookup", CrateInfo(name, EmptyStr, FALSE, None), NoError)

TargetDecls(m, name) ==
    IF ~m.found THEN {}
    ELSE UNION {{d[2] : d \in {e \in sec.val : e[1] = name}} :
                  sec \in {x \in {m.dependencies, m.dev_dependencies, m.build_dependencies} : x.some}}

clone_path == join(arg_dir, crate_info.name)

Classify ==
    /\ pc = "start"
    /\ LET dependency_info == IF manifest.found THEN find_dependency(manifest, arg_name) ELSE None
           r == resolve_source(dependency_info, arg_name)
       IN  /\ pc' = r.next
           /\ crate_info' = r.crate_info
           /\ run_error' = r.error
    /\ UNCHANGED <<cls_vars, fun_vars, cfg_vars, env_vars, fs, registry_lookups, clones, pulls,
                   dirs_created, actual_crate_path>>

RegistryLookup ==
    /\ pc = "lookup"
    /\ registry_lookups' = registry_lookups + 1
    /\ \E answer \in RegistryAnswers :
         LET r == get_repository_url(answer)
         IN  IF r.ok
             THEN /\ crate_info' = [crate_info EXCEPT !.repository_url = r.val]
                  /\ pc' = "mkdir"
                  /\ UNCHANGED run_error
             ELSE /\ pc' = "failed"
                  /\ run_error' = "Failed to get repository URL for crate"
                  /\ UNCHANGED crate_info
    /\ UNCHANGED <<cls_vars, fun_vars, cfg_vars, env_vars, fs, clones, pulls, dirs_created, actual_crate_path>>

CreateTargetDir ==
    /\ pc = "mkdir"
    /\ IF fs.target_dir
       THEN /\ pc' = "fetch"
            /\ UNCHANGED <<fs, dirs_created, run_error>>
       ELSE /\ dirs_created' = dirs_created + 1
            /\ \E created \in BOOLEAN :
                 IF created
                 THEN /\ fs' = [fs EXCEPT !.target_dir = TRUE]
                      /\ pc' = "fetch"
                      /\ UNCHANGED run_error
                 ELSE /\ pc' = "failed"
                      /\ run_error' = "Failed to create directory"
                      /\ UNCHANGED fs
    /\ UNCHANGED <<cls_vars, fun_vars, cfg_vars, env_vars, crate_info, registry_lookups, clones, pulls,
                   actual_crate_path>>

transport_call_always_clone(exists) == "clone"

(* Lines 265-274: pull into an existing directory, clone otherwise.        *)
transport_call(exists) == IF exists THEN "pull" ELSE "clone"

Fetch ==
    /\ pc = "fetch"
    /\ \E fetched \in BOOLEAN :
         /\ IF transport_call(fs.clone_path) = "pull"
            THEN pulls' = pulls + 1 /\ UNCHANGED <<clones, fs>>
            ELSE /\ clones' = Append(clones, crate_info.repository_url)
                 /\ fs' = [fs EXCEPT !.clone_path = fetched]
                 /\ UNCHANGED pulls
         /\ IF fetched
            THEN pc' = "layout" /\ UNCHANGED run_error
            ELSE /\ pc' = "failed"
                 /\ run_error' = IF transport_call(fs.clone_path) = "pull"
                                 THEN "Failed to fetch from remote" ELSE "Git clone failed"
    /\ UNCHANGED <<cls_vars, fun_vars, cfg_vars, env_vars, crate_info, registry_lookups, dirs_created,
                   actual_crate_path>>

resolve_layout_exact_only(t, name) == find_crate_path(t, name)

(* Lines 276-322: exact resolution, then the similarity fallback.          *)
resolve_layout(t, name) ==
    LET found == find_crate_path(t, name)
        listed == list_workspace_crates(t)
    IN  IF found.ok THEN found
        ELSE IF ~listed.ok THEN found
        ELSE IF listed.val = <<>> THEN found
        ELSE IF find_similar_crate(name, listed.val).some
             THEN Ok(find_similar_crate(name, listed.val).val[2])
        ELSE Err("Could not find crate in the repository")

ResolveLayout ==
    /\ pc = "layout"
    /\ LET r == resolve_layout(repo_tree, crate_info.name)
       IN  IF r.ok
           THEN /\ actual_crate_path' = join_all(clone_path, r.val)
                /\ pc' = "load"
                /\ UNCHANGED run_error
           ELSE /\ pc' = "failed"
                /\ run_error' = r.err
                /\ UNCHANGED actual_crate_path
    /\ UNCHANGED <<cls_vars, fun_vars, cfg_vars, env_vars, fs, crate_info, registry_lookups, clones, pulls,
                   dirs_created>>

LoadConfig ==
    /\ pc = "load"
    /\ DoLoadOrCreate
    /\ pc' = IF call'.ok THEN "add" ELSE "failed"
    /\ run_error' = IF call'.ok THEN run_error
                    ELSE IF disk.state # "missing" THEN load_from_file(disk).err
                    ELSE "Failed to create .cargo directory"
    /\ UNCHANGED <<cls_vars, fun_vars, env_vars, fs, crate_info, registry_lookups, clones, pulls,
                   dirs_created, actual_crate_path>>

AddPatchToConfig ==
    /\ pc = "add"
    /\ IF crate_info.original_git_url.some
       THEN DoAddPatchWithSource(crate_info.name, actual_crate_path, crate_info.original_git_url.val)
       ELSE DoAddPatch(crate_info.name, actual_crate_path)
    /\ pc' = IF call'.ok THEN "save" ELSE "failed"
    /\ run_error' = IF call'.ok THEN run_error ELSE "Failed to get current directory"
    /\ UNCHANGED <<cls_vars, fun_vars, env_vars, fs, crate_info, registry_lookups, clones, pulls,
                   dirs_created, actual_crate_path>>

SaveConfig ==
    /\ pc = "save"
    /\ DoSave
    /\ pc' = IF call'.ok THEN "done" ELSE "failed"
    /\ run_error' = IF call'.ok THEN run_error ELSE "Failed to write config file"
    /\ UNCHANGED <<cls_vars, fun_vars, env_vars, fs, crate_info, registry_lookups, clones, pulls,
                   dirs_created, actual_crate_path>>

(* The environments a run starts in.                                       *)
NoneOfThree == Detailed(None, None, None, None, None, None)
RunDefinitions ==
    { Simple(<<"1.0">>),
      Detailed(None, Some(UrlGithub), Some(<<"dev">>), None, None, None),
      Detailed(None, Some(UrlNoScheme), None, None, None, None),
      Detailed(Some(<<"1.0">>), Some(UrlGithubTree), None, None, None, Some(<<"..", "/", "serde">>)),
      Detailed(Some(<<"1.0">>), None, None, None, None, Some(<<"..", "/", "serde">>)),
      Detailed(None, None, None, None, None, Some(<<"..", "/", "serde">>)),
      Detailed(Some(<<"1.0">>), None, None, None, None, None),
      NoneOfThree }
Section(deps) == [some |-> TRUE, val |-> deps]
NoSection == [some |-> FALSE, val |-> {}]
CargoToml(found, dependencies, dev_dependencies, build_dependencies) ==
    [found |-> found, dependencies |-> dependencies, dev_dependencies |-> dev_dependencies,
     build_dependencies |-> build_dependencies]
Manifests ==
    {CargoToml(FALSE, NoSection, NoSection, NoSection)} \cup
    {CargoToml(TRUE, d, v, b) :
        d \in {NoSection, Section({<<(<<"other">>), Simple(<<"1.0">>)>>})}
              \cup {Section({<<(<<"serde">>), def>>}) : def \in RunDefinitions},
        v \in {NoSection, Section({<<(<<"serde">>), Simple(<<"0.3">>)>>}),
               Section({<<(<<"serde">>), NoneOfThree>>})},
        b \in {NoSection, Section({<<(<<"serde">>), Detailed(None, None, None, None, None,
                                                           Some(<<"..", "/", "serde">>))>>})}}

ArgNames == {<<"serde">>, UrlGithubGit, UrlScp, UrlScpBad}
ArgDirs == {PathBuf(FALSE, << <<"crates">> >>)}

WorkspaceRoot(members, exclude) == Manifest("ok", Workspace(members, exclude), None)
Trees ==
    { Tree(PackageManifest(<<"serde">>), <<>>),
      Tree(PackageManifest(<<"serde", "_derive">>), <<>>),
      Tree(PackageManifest(<<"tokio">>), <<>>),
      Tree(NoManifest, <<>>),
      Tree(WorkspaceRoot(<< <<"crates", "/", "*">> >>, << <<"crates", "/", "internal">> >>),
           << DirEntry(<< <<"crates">>, <<"internal">> >>, TRUE, PackageManifest(<<"serde">>)),
              DirEntry(<< <<"crates">>, <<"Serde">> >>, TRUE, PackageManifest(<<"Serde">>)),
              DirEntry(<< <<"crates">>, <<"serde">> >>, TRUE, PackageManifest(<<"serde">>)) >>),
      Tree(WorkspaceRoot(<< <<"crates", "/", "*">> >>, <<>>),
           << DirEntry(<< <<"crates">>, <<"broken">> >>, TRUE, MalformedManifest),
              DirEntry(<< <<"crates">>, <<"serde">> >>, TRUE, PackageManifest(<<"serde">>)) >>),
      Tree(WorkspaceRoot(<< <<"crates", "/", "*">> >>, <<>>), <<>>),
      Tree(MalformedManifest, <<>>) }

RunDiskFiles ==
    { DiskFile(FALSE, "missing", NoPatch, {}),
      DiskFile(TRUE, "malformed", NoPatch, {}),
      DiskFile(TRUE, "unreadable", NoPatch, {}),
      DiskFile(TRUE, "document",
               SomePatch({<<CratesIo, {<<(<<"other">>), DiskEntry(DiskPathStr, ExtraFields)>>}>>}),
               OtherSections) }

InitRun ==
    /\ manifest \in Manifests
    /\ arg_name \in ArgNames
    /\ arg_dir \in ArgDirs
    /\ repo_tree \in Trees
    /\ fs \in {[target_dir |-> t, clone_path |-> c] : t \in BOOLEAN, c \in BOOLEAN}
    /\ fs.clone_path => fs.target_dir
    /\ pc = "start"
    /\ crate_info = NoCrateInfo
    /\ run_error = NoError
    /\ registry_lookups = 0
    /\ clones = <<>>
    /\ pulls = 0
    /\ dirs_created = 0
    /\ actual_crate_path = NoPath

----------------------------------------------------------------------------
(* workspace.rs and find_similar_crate applied to a checked-out tree       *)

MaxEntries == 3

SeqsNoRepeat(S, n) ==
    UNION {{sq \in [1..k -> S] : \A i, j \in 1..k : sq[i] = sq[j] => i = j} : k \in 0..n}

EntryPool ==
    { DirEntry(<< <<"crates">>, <<"internal">> >>, TRUE, PackageManifest(<<"serde">>)),
      DirEntry(<< <<"crates">>, <<"serde">> >>, TRUE, PackageManifest(<<"serde">>)),
      DirEntry(<< <<"crates">>, <<"Serde">> >>, TRUE, PackageManifest(<<"Serde">>)),
      DirEntry(<< <<"crates">>, <<"derive">> >>, TRUE, PackageManifest(<<"serde", "_derive">>)),
      DirEntry(<< <<"crates">>, <<"broken">> >>, TRUE, MalformedManifest),
      DirEntry(<< <<"crates">>, <<"README">> >>, FALSE, NoManifest) }
PathOf(e) == e.path
LayoutEntries ==
    {sq \in SeqsNoRepeat(EntryPool, MaxEntries) :
        \A i, j \in 1..Len(sq) : PathOf(sq[i]) = PathOf(sq[j]) => i = j}
MemberLists ==
    { << <<"crates", "/", "*">> >>,
      << <<"crates", "/", "serde">>, <<"crates", "/", "*">> >>,
      << <<"crates", "/", "derive">>, <<"crates", "/", "internal">>, <<"crates", "/", "Serde">> >> }
ExcludeLists ==
    { <<>>,
      << <<"crates", "/", "internal">> >>,
      << <<"crates", "/", "internal">>, <<"crates", "/", "broken">> >>,
      << <<"crates", "/", "in*">> >> }
LayoutTrees ==
    { Tree(PackageManifest(<<"serde">>), <<>>),
      Tree(PackageManifest(<<"Serde">>), <<>>),
      Tree(Manifest("ok", NoWorkspace, None), <<>>),
      Tree(MalformedManifest, <<>>),
      Tree(NoManifest, <<>>) }
    \cup {Tree(WorkspaceRoot(m, x), es) : m \in MemberLists, x \in ExcludeLists, es \in LayoutEntries}
WantedNames == {<<"serde">>, <<"serde", "_derive">>, <<"tokio">>}

InitLayout ==
    /\ repo_tree \in LayoutTrees
    /\ wanted \in WantedNames
    /\ found_path = NotCalled
    /\ inventory = NotCalled
    /\ similar = NotCalled

FindCratePath ==
    /\ wanted # EmptyStr
    /\ found_path = NotCalled
    /\ found_path' = find_crate_path(repo_tree, wanted)
    /\ UNCHANGED <<cls_vars, cfg_vars, run_vars, url_vars, save_vars, auth_vars, place_vars, wanted, inventory, similar>>

ListWorkspaceCrates ==
    /\ wanted # EmptyStr
    /\ inventory = NotCalled
    /\ inventory' = list_workspace_crates(repo_tree)
    /\ UNCHANGED <<cls_vars, cfg_vars, run_vars, url_vars, save_vars, auth_vars, place_vars, wanted, found_path, similar>>

FindSimilarCrate ==
    /\ inventory.ok
    /\ similar = NotCalled
    /\ similar' = Ok(find_similar_crate(wanted, inventory.val))
    /\ UNCHANGED <<cls_vars, cfg_vars, run_vars, url_vars, save_vars, auth_vars, place_vars, wanted, found_path, inventory>>

----------------------------------------------------------------------------
(* crates_io.rs: clean_repository_url applied to a repository URL          *)

UrlHeads ==
    { <<"https://", "github.com", "/">>,
      <<"http://", "github.com", "/">>,
      <<"https://", "gitlab.com", "/">>,
      <<"git@", "github.com", ":">>,
      <<"www.", "example.org", "/">>,
      <<"https://", "example.org", "/", "github.com", "/">> }
UrlPaths ==
    { <<"u", "/", "serde">>,
      <<"u", "/", "serde", "/tree/master", "/", "docs">>,
      <<"u", "/", "serde", "/tree/main", "/", "docs">> }
UrlSuffixes ==
    {<<>>, <<".git">>, <<"/tree/master">>, <<"/tree/main">>, <<"/tree/dev">>,
     <<"/tree/master", "/tree/main">>, <<"/">>}
RepositoryUrls == {h \o q \o x : h \in UrlHeads, q \in UrlPaths, x \in UrlSuffixes}

(* Further strings a user can pass as --name.                              *)
ReferenceStrings ==
    { <<"serde">>,
      <<"my-crate-name">>,
      <<"ssh://", "git@", "github.com", "/", "u", "/", "serde", ".git">>,
      <<"git://", "github.com", "/", "u", "/", "serde", ".git">>,
      <<"https://", "github.com", ":", "u", "/", "serde">>,
      <<"alice@", "example.org", ":", "u", "/", "serde", ".git">>,
      <<"le", "git@", "example.org">>,
      <<"git@", "github.com", "/", "u", "/", "serde">>,
      UrlScp,
      UrlScpBad }

InitUrl ==
    /\ repo_url \in RepositoryUrls \cup ReferenceStrings
    /\ cleaned_url = NotCalled
    /\ cleaned_again = NotCalled
    /\ git_url_checks = NotChecked
    /\ extracted_name = NotCalled

CleanRepositoryUrl ==
    /\ repo_url # EmptyStr
    /\ cleaned_url = NotCalled
    /\ cleaned_url' = clean_repository_url(repo_url)
    /\ UNCHANGED <<cls_vars, cfg_vars, run_vars, layout_vars, save_vars, auth_vars, place_vars, repo_url,
                   cleaned_again, git_url_checks, extracted_name>>

(* clean_repository_url applied to its own result *)
CleanAgain ==
    /\ cleaned_url.ok
    /\ cleaned_again = NotCalled
    /\ cleaned_again' = clean_repository_url(cleaned_url.val)
    /\ UNCHANGED <<cls_vars, cfg_vars, run_vars, layout_vars, save_vars, auth_vars, place_vars, repo_url,
                   cleaned_url, git_url_checks, extracted_name>>

(* main.rs: is_git_url, crates_io.rs: is_valid_git_url, on the same string *)
CheckGitUrl ==
    /\ repo_url # EmptyStr
    /\ git_url_checks = NotChecked
    /\ git_url_checks' = [called |-> TRUE,
                          is_git_url |-> is_git_url(repo_url),
                          is_valid_git_url |-> is_valid_git_url(repo_url)]
    /\ UNCHANGED <<cls_vars, cfg_vars, run_vars, layout_vars, save_vars, auth_vars, place_vars, repo_url,
                   cleaned_url, cleaned_again, extracted_name>>

ExtractCrateName ==
    /\ repo_url # EmptyStr
    /\ extracted_name = NotCalled
    /\ extracted_name' = extract_crate_name_from_git_url(repo_url)
    /\ UNCHANGED <<cls_vars, cfg_vars, run_vars, layout_vars, save_vars, auth_vars, place_vars, repo_url,
                   cleaned_url, cleaned_again, git_url_checks>>

----------------------------------------------------------------------------
(* config.rs: CargoConfig::save step by step, with another process reading *)
(* the same file (load_from_file: fs::read_to_string) at any moment.       *)

NotRead == [dir_exists |-> FALSE, state |-> "not_read", patch |-> NoPatch, other |-> {}]

(* File::create inside fs::write *)
SaveCreate ==
    /\ writer_pc = "idle"
    /\ config.loaded
    /\ \E opened \in BOOLEAN :
         IF opened /\ disk.dir_exists
         THEN disk' = EmptyFile /\ writer_pc' = "opened"
         ELSE writer_pc' = "failed" /\ UNCHANGED disk
    /\ UNCHANGED <<cls_vars, run_vars, layout_vars, url_vars, auth_vars, place_vars, observed,
                   config, call, before, loaded_from, insertion_order, touched, ncalls, writes>>

(* write_all inside fs::write: one or more write calls, each of which can  *)
(* fail.                                                                   *)
SaveWriteAll ==
    /\ writer_pc \in {"opened", "writing"}
    /\ \E progress \in {"all", "part", "error"} :
         /\ progress = "part" => writer_pc = "opened"
         /\ IF progress = "all" THEN disk' = NewContent(config) /\ writer_pc' = "done"
            ELSE IF progress = "part" THEN disk' = PartialFile /\ writer_pc' = "writing"
            ELSE writer_pc' = "failed" /\ UNCHANGED disk
    /\ UNCHANGED <<cls_vars, run_vars, layout_vars, url_vars, auth_vars, place_vars, observed,
                   config, call, before, loaded_from, insertion_order, touched, ncalls, writes>>

ReadConfigFile ==
    /\ writer_pc # "unused"
    /\ observed' = disk
    /\ UNCHANGED <<cls_vars, cfg_vars, run_vars, layout_vars, url_vars, auth_vars, place_vars, writer_pc>>

SaveDiskFiles == {d \in DiskFiles : d.state \in {"missing", "document"} /\ d.other = {}}
SaveConfigs == {load_from_file(d).val : d \in {x \in DiskFiles : x.state = "document"}}

InitSave ==
    /\ disk \in SaveDiskFiles
    /\ config \in SaveConfigs
    /\ call = NoCall
    /\ before = NotLoaded
    /\ loaded_from = disk
    /\ insertion_order = <<>>
    /\ touched = {}
    /\ ncalls = 0
    /\ writes = 0
    /\ writer_pc = "idle"
    /\ observed = NotRead

----------------------------------------------------------------------------
(* git.rs: the credentials callback of a clone or pull.  The transport     *)
(* calls it each time it needs a credential, and again after the remote    *)
(* has rejected the one it was given.                                      *)

MaxOffers == 3

(* get_ssh_key_paths: the key files in the order they are looked for.      *)
KeyNames == <<"id_rsa", "id_ecdsa", "id_ed25519", "id_dsa">>

try_ssh_key_auth(tried, env) ==
    LET usable == {i \in 1..Len(KeyNames) : env.keys[KeyNames[i]] = "usable"}
        first == CHOOSE i \in usable : \A j \in usable : i <= j
    IN  IF ~tried /\ env.agent
        THEN [result |-> Ok("agent"), tried |-> TRUE]
        ELSE IF usable # {}
        THEN [result |-> Ok(KeyNames[first]), tried |-> tried]
        ELSE [result |-> Err("No valid system SSH key found"), tried |-> tried]

try_userpass_auth(env) ==
    IF env.config_username /\ env.token THEN Ok("userpass")
    ELSE IF env.env_userpass THEN Ok("userpass")
    ELSE Err("No username/password credentials available from system configuration")

(* The closure given to RemoteCallbacks::credentials.                      *)
credentials(tried, env) ==
    IF "SSH_KEY" \in env.allowed_types
    THEN try_ssh_key_auth(tried, env)
    ELSE IF "USER_PASS_PLAINTEXT" \in env.allowed_types
    THEN [result |-> try_userpass_auth(env), tried |-> tried]
    ELSE [result |-> Ok("default"), tried |-> tried]

CredentialValues == {"agent", "id_rsa", "id_ecdsa", "id_ed25519", "id_dsa", "userpass", "default"}

CredentialEnv(allowed_types, agent, keys, config_username, token, env_userpass, accepts) ==
    [allowed_types |-> allowed_types, agent |-> agent, keys |-> keys,
     config_username |-> config_username, token |-> token, env_userpass |-> env_userpass,
     accepts |-> accepts]

NoCredentialEnv ==
    CredentialEnv({}, FALSE, [k \in {KeyNames[i] : i \in 1..Len(KeyNames)} |-> "missing"],
                  FALSE, FALSE, FALSE, {})

CredentialEnvs ==
    { CredentialEnv(a, g, k, u, t, e, r) :
        a \in SUBSET {"SSH_KEY", "USER_PASS_PLAINTEXT"},
        g \in BOOLEAN,
        k \in [{KeyNames[i] : i \in 1..Len(KeyNames)} -> {"missing", "usable", "unusable"}],
        u \in BOOLEAN, t \in BOOLEAN, e \in BOOLEAN,
        r \in {{}} \cup {{c} : c \in {"agent", "id_ecdsa", "userpass"}} }

InitCredentials ==
    /\ ssh_agent_tried = FALSE
    /\ credential_env \in CredentialEnvs
    /\ offered = <<>>
    /\ transport_state = "authenticating"

(* One invocation of the callback and the remote's answer to what it       *)
(* returned.                                                               *)
Credentials ==
    /\ transport_state = "authenticating"
    /\ Len(offered) < MaxOffers
    /\ LET r == credentials(ssh_agent_tried, credential_env)
       IN  /\ ssh_agent_tried' = r.tried
           /\ IF r.result.ok
              THEN /\ offered' = Append(offered, r.result.val)
                   /\ transport_state' = IF r.result.val \in credential_env.accepts
                                          THEN "authenticated" ELSE "authenticating"
              ELSE /\ transport_state' = "auth_error"
                   /\ UNCHANGED offered
    /\ UNCHANGED <<cls_vars, cfg_vars, run_vars, layout_vars, url_vars, save_vars, place_vars, credential_env>>

----------------------------------------------------------------------------
(* config.rs: where the override document lives (get_config_dir) and what  *)
(* path string an entry stores, for a run started in some directory of a   *)
(* project.                                                                *)

parent(p) ==
    IF p.comps = <<>> THEN None
    ELSE Some(PathBuf(p.abs, SubSeq(p.comps, 1, Len(p.comps) - 1)))

(* The loop of get_config_dir: the nearest directory, from the working     *)
(* directory upwards, that holds a Cargo.toml.                             *)
RECURSIVE SearchUp(_, _)
SearchUp(search_dir, env) ==
    IF search_dir \in env.manifest_dirs THEN Some(join(search_dir, <<".cargo">>))
    ELSE IF parent(search_dir).some THEN SearchUp(parent(search_dir).val, env)
    ELSE None

get_config_dir(env) ==
    LET current_dir == IF env.cwd.ok THEN env.cwd.val ELSE PathBuf(FALSE, <<".">>)
        local_cargo_dir == join(current_dir, <<".cargo">>)
    IN  IF current_dir \notin env.cargo_dirs /\ SearchUp(current_dir, env).some
        THEN SearchUp(current_dir, env).val
        ELSE local_cargo_dir

(* The path a stored string denotes.                                       *)
PathFromStr(s) ==
    LET abs == s # <<>> /\ s[1] = "/"
    IN  PathBuf(abs, SelectSeq(SplitAt(IF abs THEN Tail(s) ELSE s, "/"), LAMBDA part : part # <<>>))

ProjectEnv(cwd, cargo_dirs, manifest_dirs, local_path) ==
    [cwd |-> cwd, cargo_dirs |-> cargo_dirs, manifest_dirs |-> manifest_dirs,
     local_path |-> local_path]
NoProjectEnv == ProjectEnv(Err("current_dir"), {}, {}, NoPath)
NotPlaced == [load_dir |-> NoPath, path_str |-> None, save_dir |-> NoPath]

ProjectDirs ==
    { PathBuf(TRUE, <<>>),
      PathBuf(TRUE, << <<"w">> >>),
      PathBuf(TRUE, << <<"w">>, <<"sub">> >>) }
CrateDirs ==
    { PathBuf(FALSE, << <<"crates">>, <<"serde">> >>),
      PathBuf(TRUE, << <<"w">>, <<"sub">>, <<"crates">>, <<"serde">> >>),
      PathBuf(TRUE, << <<"w">>, <<"crates">>, <<"serde">> >>),
      PathBuf(TRUE, << <<"srv">>, <<"serde">> >>) }

InitPlace ==
    /\ project_env \in
         { ProjectEnv(c, k, m, p) :
             c \in {Ok(PathBuf(TRUE, << <<"w">> >>)), Ok(PathBuf(TRUE, << <<"w">>, <<"sub">> >>)),
                    Err("current_dir")},
             k \in SUBSET ProjectDirs, m \in SUBSET ProjectDirs, p \in CrateDirs }
    /\ place_pc = "load"
    /\ placement = NotPlaced

(* load_or_create: the document is looked for in get_config_dir(); when    *)
(* there is none, create_new creates that directory.                       *)
LocateForLoad ==
    /\ place_pc = "load"
    /\ LET config_dir == get_config_dir(project_env)
       IN  \E mkdir_ok \in BOOLEAN :
             IF parent(config_dir).val \in project_env.cargo_dirs
             THEN /\ placement' = [placement EXCEPT !.load_dir = config_dir]
                  /\ place_pc' = "add"
                  /\ UNCHANGED project_env
             ELSE IF mkdir_ok /\ project_env.cwd.ok
             THEN /\ placement' = [placement EXCEPT !.load_dir = config_dir]
                  /\ place_pc' = "add"
                  /\ project_env' = [project_env EXCEPT
                                       !.cargo_dirs = @ \cup {parent(config_dir).val}]
             ELSE /\ place_pc' = "failed"
                  /\ UNCHANGED <<placement, project_env>>
    /\ UNCHANGED <<cls_vars, cfg_vars, run_vars, layout_vars, url_vars, save_vars, auth_vars>>

(* add_patch_with_source, lines 73-91: the path string of the entry *)
StoreEntryPath ==
    /\ place_pc = "add"
    /\ IF project_env.cwd.ok
       THEN /\ placement' = [placement EXCEPT !.path_str =
                   Some(to_string_lossy(relative_path(project_env.local_path, project_env.cwd.val)))]
            /\ place_pc' = "save"
       ELSE /\ place_pc' = "failed"
            /\ UNCHANGED placement
    /\ UNCHANGED <<cls_vars, cfg_vars, run_vars, layout_vars, url_vars, save_vars, auth_vars, project_env>>

(* save: the document is written to get_config_path() *)
LocateForSave ==
    /\ place_pc = "save"
    /\ placement' = [placement EXCEPT !.save_dir = get_config_dir(project_env)]
    /\ place_pc' = "done"
    /\ UNCHANGED <<cls_vars, cfg_vars, run_vars, layout_vars, url_vars, save_vars, auth_vars, project_env>>

----------------------------------------------------------------------------
(* Specifications                                                          *)

IdleClassifier ==
    /\ dep_name = EmptyStr
    /\ dep_def = Simple(EmptyStr)
    /\ dep_result = Unparsed

IdleConfig ==
    /\ disk = DiskFile(FALSE, "missing", NoPatch, {})
    /\ config = NotLoaded
    /\ call = NoCall
    /\ before = NotLoaded
    /\ loaded_from = disk
    /\ insertion_order = <<>>
    /\ touched = {}
    /\ ncalls = 0
    /\ writes = 0

NoRun ==
    /\ manifest = CargoToml(FALSE, NoSection, NoSection, NoSection)
    /\ arg_name = EmptyStr
    /\ arg_dir = NoPath
    /\ fs = [target_dir |-> FALSE, clone_path |-> FALSE]
    /\ pc = "idle"
    /\ crate_info = NoCrateInfo
    /\ run_error = NoError
    /\ registry_lookups = 0
    /\ clones = <<>>
    /\ pulls = 0
    /\ dirs_created = 0
    /\ actual_crate_path = NoPath

IdleRun == NoRun /\ repo_tree = Tree(NoManifest, <<>>)

IdleLayout ==
    /\ wanted = EmptyStr
    /\ found_path = NotCalled
    /\ inventory = NotCalled
    /\ similar = NotCalled

IdleUrl ==
    /\ repo_url = EmptyStr
    /\ cleaned_url = NotCalled
    /\ cleaned_again = NotCalled
    /\ git_url_checks = NotChecked
    /\ extracted_name = NotCalled

IdleCredentials ==
    /\ ssh_agent_tried = FALSE
    /\ credential_env = NoCredentialEnv
    /\ offered = <<>>
    /\ transport_state = "unused"

IdlePlace ==
    /\ project_env = NoProjectEnv
    /\ place_pc = "unused"
    /\ placement = NotPlaced

IdleSave ==
    /\ writer_pc = "unused"
    /\ observed = NotRead

(* The classifier applied to every declaration shape.                      *)
InitClassify ==
    /\ dep_name \in DepNames
    /\ dep_def \in DependencyDefinitions
    /\ dep_result = Unparsed
    /\ IdleConfig
    /\ IdleRun
    /\ IdleLayout /\ IdleUrl /\ IdleSave /\ IdleCredentials /\ IdlePlace

ParseDependencyDefinition ==
    /\ dep_result = Unparsed
    /\ dep_result' = parse_dependency_definition(dep_name, dep_def)
    /\ UNCHANGED <<dep_name, dep_def, cfg_vars, run_vars, fun_vars>>

NextClassify == ParseDependencyDefinition
SpecClassify == InitClassify /\ [][NextClassify]_vars

(* Any sequence of calls on the override document.                         *)
InitDocument == IdleClassifier /\ InitConfig /\ IdleRun /\ IdleLayout /\ IdleUrl /\ IdleSave /\ IdleCredentials /\ IdlePlace
NextDocument ==
    \/ LoadOrCreate
    \/ AddPatchWithSource
    \/ AddPatch
    \/ RemovePatch
    \/ ListPatches
    \/ Save
SpecDocument == InitDocument /\ [][NextDocument]_vars

(* One run of `cargo lpatch --name <arg_name> --dir <arg_dir>`.            *)
InitRunSpec ==
    /\ IdleClassifier
    /\ InitConfig
    /\ disk \in RunDiskFiles
    /\ InitRun
    /\ IdleLayout /\ IdleUrl /\ IdleSave /\ IdleCredentials /\ IdlePlace
NextRun ==
    \/ Classify
    \/ RegistryLookup
    \/ CreateTargetDir
    \/ Fetch
    \/ ResolveLayout
    \/ LoadConfig
    \/ AddPatchToConfig
    \/ SaveConfig
SpecRun == InitRunSpec /\ [][NextRun]_vars

(* The layout functions applied to a tree and a crate name.                *)
InitLayoutSpec == IdleClassifier /\ IdleConfig /\ NoRun /\ InitLayout /\ IdleUrl /\ IdleSave /\ IdleCredentials /\ IdlePlace
NextLayout ==
    \/ FindCratePath
    \/ ListWorkspaceCrates
    \/ FindSimilarCrate
SpecLayout == InitLayoutSpec /\ [][NextLayout]_vars

(* clean_repository_url applied to a URL.                                  *)
InitUrlSpec == IdleClassifier /\ IdleConfig /\ IdleRun /\ IdleLayout /\ InitUrl /\ IdleSave /\ IdleCredentials /\ IdlePlace
NextUrl ==
    \/ CleanRepositoryUrl
    \/ CleanAgain
    \/ CheckGitUrl
    \/ ExtractCrateName
SpecUrl == InitUrlSpec /\ [][NextUrl]_vars

(* The credentials callback against a remote that accepts at most one     *)
(* credential.                                                             *)
InitCredentialsSpec ==
    IdleClassifier /\ IdleConfig /\ IdleRun /\ IdleLayout /\ IdleUrl /\ IdleSave /\ InitCredentials /\ IdlePlace
NextCredentials == Credentials
SpecCredentials == InitCredentialsSpec /\ [][NextCredentials]_vars

(* The document location and the stored path of one run.                   *)
InitPlaceSpec ==
    /\ IdleClassifier /\ IdleConfig /\ IdleRun /\ IdleLayout /\ IdleUrl /\ IdleSave
    /\ IdleCredentials
    /\ InitPlace
NextPlace ==
    \/ LocateForLoad
    \/ StoreEntryPath
    \/ LocateForSave
SpecPlace == InitPlaceSpec /\ [][NextPlace]_vars

(* One save of a loaded document, and a concurrent reader of the file.     *)
InitSaveSpec ==
    IdleClassifier /\ InitSave /\ IdleRun /\ IdleLayout /\ IdleUrl /\ IdleCredentials /\ IdlePlace
NextSave ==
    \/ SaveCreate
    \/ SaveWriteAll
    \/ ReadConfigFile
SpecSave == InitSaveSpec /\ [][NextSave]_vars

----------------------------------------------------------------------------
(* Properties                                                              *)

Classified == IF manifest.found THEN find_dependency(manifest, arg_name) ELSE None
ClassifiedAs(type) == Classified.some /\ Classified.val.dep_type.type = type

EntriesOf(cfg, g, n) ==
    IF cfg.patch.some
    THEN {e[2] : e \in {x \in UNION {grp[2] : grp \in {y \in cfg.patch.val : y[1] = g}} : x[1] = n}}
    ELSE {}
GroupPresent(cfg, g) == cfg.patch.some /\ ContainsKey(cfg.patch.val, g)
NoEffects ==
    /\ registry_lookups = 0
    /\ clones = <<>>
    /\ pulls = 0
    /\ writes = 0
AddCalls == {"add_patch", "add_patch_with_source"}

(* C1: parse_dependency_definition yields Git when git is present, else    *)
(* Path when path is present, else Version when version is present, with   *)
(* the declared values carried over; a bare version string yields Version; *)
(* a table with none of the three yields an error naming the dependency.   *)
Thm_C1 ==
    dep_result # Unparsed =>
        /\ dep_def.kind = "Simple" =>
             dep_result.ok /\ dep_result.val = DependencyInfo(dep_name, Version(dep_def.version.val))
        /\ dep_def.kind = "Detailed" /\ dep_def.git.some =>
             /\ dep_result.ok
             /\ dep_result.val.name = dep_name
             /\ dep_result.val.dep_type =
                  Git(dep_def.git.val, dep_def.branch, dep_def.tag, dep_def.rev)
        /\ dep_def.kind = "Detailed" /\ ~dep_def.git.some /\ dep_def.path.some =>
             dep_result.ok /\ dep_result.val = DependencyInfo(dep_name, Path(dep_def.path.val))
        /\ dep_def.kind = "Detailed" /\ ~dep_def.git.some /\ ~dep_def.path.some
              /\ dep_def.version.some =>
             dep_result.ok /\ dep_result.val = DependencyInfo(dep_name, Version(dep_def.version.val))
        /\ dep_def.kind = "Detailed" /\ ~dep_def.git.some /\ ~dep_def.path.some
              /\ ~dep_def.version.some =>
             ~dep_result.ok /\ dep_result.err.name = dep_name

Wit_C1 ==
    /\ dep_def.kind = "Detailed"
    /\ dep_def.git.some /\ dep_def.path.some /\ dep_def.version.some /\ dep_def.tag.some
    /\ dep_result.ok
    /\ dep_result.val.dep_type.type = "Git"

(* C2: when the target dependency is declared with none of git, path,      *)
(* version, the run ends with a classification error and makes no registry *)
(* lookup, no clone, no pull and no write of the override document.        *)
DeclaredWithNoSource ==
    /\ TargetDecls(manifest, arg_name) # {}
    /\ \A d \in TargetDecls(manifest, arg_name) :
         d.kind = "Detailed" /\ ~d.git.some /\ ~d.path.some /\ ~d.version.some

Cex_C2 ==
    DeclaredWithNoSource /\ pc # "start" =>
        pc = "failed" /\ run_error # NoError /\ NoEffects

(* C3: when the target dependency is classified as a path dependency, the  *)
(* run fails with the usage error before resolution: no registry lookup,   *)
(* no clone or pull, no directory creation, no call on the override        *)
(* document and no write of it.                                            *)
Thm_C3 ==
    ClassifiedAs("Path") =>
        /\ pc \in {"start", "failed"}
        /\ pc = "failed" =>
             run_error = "Path dependency cannot be patched as it's already local"
        /\ NoEffects
        /\ dirs_created = 0
        /\ ncalls = 0
        /\ disk = loaded_from

Wit_C3 ==
    /\ ClassifiedAs("Path")
    /\ pc = "failed"
    /\ \E d \in TargetDecls(manifest, arg_name) : d.version.some /\ d.path.some

(* C4: the entry written by a successful run is under the group key        *)
(* "crates-io" when the dependency was classified Version or resolved by   *)
(* name through the registry, and under the declared git URL, token for    *)
(* token, when it was classified Git or given directly as a git URL.       *)
ExpectedGroupKey ==
    IF Classified.some
    THEN IF Classified.val.dep_type.type = "Git" THEN Classified.val.dep_type.git ELSE CratesIo
    ELSE IF is_git_url(arg_name) THEN arg_name ELSE CratesIo

Thm_C4 ==
    pc = "done" =>
        /\ touched = {<<ExpectedGroupKey, crate_info.name>>}
        /\ disk.state = "document"
        /\ disk.patch.some
        /\ ContainsKey(disk.patch.val, ExpectedGroupKey)
        /\ ContainsKey(Get(disk.patch.val, ExpectedGroupKey), crate_info.name)
        /\ Get(Get(disk.patch.val, ExpectedGroupKey), crate_info.name).path
             = to_string_lossy(actual_crate_path)

Wit_C4 ==
    /\ pc = "done"
    /\ ClassifiedAs("Git")
    /\ ExpectedGroupKey = UrlGithubTree
    /\ registry_lookups = 0

(* C5: after any sequence of calls every (group, crate) pair has at most   *)
(* one entry; a successful add_patch_with_source leaves exactly one entry  *)
(* for its pair, holding the path given by that call in normalized form,   *)
(* and leaves the entries of every other pair as they were, so the path of *)
(* a pair is always that of the most recent successful call for it.        *)
Thm_C5 ==
    config.loaded =>
        /\ config.patch.some =>
             /\ UniqueKeys(config.patch.val)
             /\ \A grp \in config.patch.val : UniqueKeys(grp[2])
        /\ call.op \in AddCalls /\ call.ok =>
             /\ EntriesOf(config, call.source, call.crate)
                  = {PatchConfig(to_string_lossy(relative_path(call.path, Cwd)))}
             /\ \A g \in PatchSources, n \in CrateNames :
                  <<g, n>> # <<call.source, call.crate>> =>
                      EntriesOf(config, g, n) = EntriesOf(before, g, n)

Wit_C5 ==
    /\ call.op = "add_patch_with_source"
    /\ call.ok
    /\ call.source = GitSource
    /\ EntriesOf(before, call.source, call.crate) # {}
    /\ EntriesOf(before, call.source, call.crate) # EntriesOf(config, call.source, call.crate)
    /\ Cardinality(EntriesOf(config, call.source, call.crate)) = 1

(* C6: a save that follows load_or_create of an existing document writes   *)
(* every top-level key other than patch with the value it had in the       *)
(* loaded document, whatever add and remove calls were made in between.    *)
Thm_C6 ==
    call.op = "save" /\ call.ok /\ loaded_from.state = "document" =>
        /\ disk.state = "document"
        /\ disk.other = loaded_from.other
        /\ UniqueKeys(disk.other)

Wit_C6 ==
    /\ call.op = "save" /\ call.ok
    /\ loaded_from.state = "document"
    /\ loaded_from.other = OtherSections
    /\ touched # {}
    /\ disk.patch # loaded_from.patch

(* C7: a load, add or remove, save cycle leaves every entry other than the *)
(* addressed pairs as it was on disk, in every group and with all of its   *)
(* fields; remove_patch never changes an entry outside the registry group. *)
DiskEntriesOf(d, g, n) ==
    IF d.patch.some
    THEN {e[2] : e \in {x \in UNION {grp[2] : grp \in {y \in d.patch.val : y[1] = g}} : x[1] = n}}
    ELSE {}

Cex_C7 ==
    /\ call.op = "save" /\ call.ok /\ loaded_from.state = "document" =>
         \A g \in PatchSources, n \in CrateNames :
            <<g, n>> \notin touched => DiskEntriesOf(disk, g, n) = DiskEntriesOf(loaded_from, g, n)
    /\ call.op = "remove_patch" =>
         \A g \in PatchSources \ {CratesIo}, n \in CrateNames :
            EntriesOf(config, g, n) = EntriesOf(before, g, n)

(* C8: remove_patch for a crate with no entry in the registry group        *)
(* returns false and leaves the whole document as it was before the call.  *)
Cex_C8 ==
    call.op = "remove_patch" /\ call.crate \notin RegistryNames(before) =>
        ~call.removed /\ config = before

(* C9 as stated: remove_patch returns true exactly when the registry group *)
(* held the crate; afterwards the group has no entry for it, the group is  *)
(* absent if it has no entries, the section is absent if no group remains, *)
(* and the section is kept when another group still has entries.           *)
RemoveResult ==
    /\ call.removed <=> call.crate \in RegistryNames(before)
    /\ call.crate \notin RegistryNames(config)
    /\ GroupPresent(config, CratesIo) => Get(config.patch.val, CratesIo) # {}
    /\ (\E g \in PatchSources \ {CratesIo}, n \in CrateNames : EntriesOf(before, g, n) # {})
          => config.patch.some

Cex_C9 ==
    call.op = "remove_patch" =>
        /\ RemoveResult
        /\ config.patch.some => config.patch.val # {}

(* C9 as amended: as above, but the section is pruned only by a call that  *)
(* found the registry group; a call on a document without the registry     *)
(* group returns false and changes nothing.                                *)
Thm_C9 ==
    call.op = "remove_patch" =>
        /\ RemoveResult
        /\ GroupPresent(before, CratesIo) => (config.patch.some => config.patch.val # {})
        /\ ~GroupPresent(before, CratesIo) => ~call.removed /\ config = before

Wit_C9 ==
    /\ call.op = "remove_patch"
    /\ call.removed
    /\ before.patch.some
    /\ Keys(before.patch.val) = {CratesIo}
    /\ ~config.patch.some

(* C10: list_patches returns exactly the (crate, path) pairs of the        *)
(* registry group, one per entry, in insertion order; after add_patch the  *)
(* registry group holds the crate with the normalized path.                *)
RegistryPath(cfg, n) == (CHOOSE e \in EntriesOf(cfg, CratesIo, n) : TRUE).path
InInsertionOrder(cfg) ==
    [i \in 1..Len(insertion_order) |-> <<insertion_order[i], RegistryPath(cfg, insertion_order[i])>>]

Cex_C10 ==
    /\ call.op = "list_patches" => call.listed = InInsertionOrder(config)
    /\ call.op = "add_patch" /\ call.ok =>
         \A listed \in list_patches(config) :
            \E i \in 1..Len(listed) :
               listed[i] = <<call.crate, to_string_lossy(relative_path(call.path, Cwd))>>

(* C11: a process that reads the config file while save is running, or     *)
(* after a save that failed, sees either the complete content the file had *)
(* before the save or the complete content save was writing.               *)
Cex_C11 ==
    observed # NotRead => observed \in {loaded_from, NewContent(config)}

(* C12: a run writes the config file at most once, and only in its last    *)
(* step, after classification, repository resolution, clone or pull and    *)
(* layout resolution have succeeded; a run that fails in one of these      *)
(* steps leaves the file content as it was; load_or_create on a missing    *)
(* file creates the directory and not the file.                            *)
FileContent(d) == <<d.state, d.patch, d.other>>
BeforeSave == {"start", "lookup", "mkdir", "fetch", "layout", "load", "add", "save"}

Thm_C12 ==
    /\ writes <= 1
    /\ writes = 1 => pc \in {"done", "failed"} /\ call.op = "save" /\ actual_crate_path # NoPath
    /\ pc \in BeforeSave \/ (pc = "failed" /\ call.op # "save") =>
         writes = 0 /\ FileContent(disk) = FileContent(loaded_from)
    /\ pc = "done" => writes = 1 /\ pulls + Len(clones) = 1
    /\ call.op = "load" /\ loaded_from.state = "missing" =>
         /\ disk.state = "missing"
         /\ call.ok => disk.dir_exists

Wit_C12 ==
    /\ pc = "done"
    /\ writes = 1
    /\ loaded_from.state = "missing"
    /\ ~loaded_from.dir_exists
    /\ disk.state = "document"

(* C13: when <dir>/<crate> already exists and the pull on it fails, the    *)
(* run is not aborted: it goes on to layout resolution on the existing     *)
(* tree and to the update of the config file.                              *)
Cex_C13 ==
    pulls > 0 => ~(pc = "failed" /\ run_error = "Failed to fetch from remote")

(* C14: on a tree with a workspace declaration, find_crate_path never      *)
(* returns, and list_workspace_crates never lists, a directory that is in  *)
(* the expansion of an exclude pattern, even when that directory exists,   *)
(* is matched by a members pattern and declares the target package name.   *)
IsWorkspaceTree(t) == t.root.state = "ok" /\ t.root.workspace.some
ExcludedPaths(t) == ExpandAll(t, t.root.workspace.exclude)
MemberPaths(t) == ExpandAll(t, t.root.workspace.members)

Thm_C14 ==
    IsWorkspaceTree(repo_tree) =>
        /\ found_path.ok => ~InSeq(found_path.val, ExcludedPaths(repo_tree))
        /\ inventory.ok =>
             \A i \in 1..Len(inventory.val) :
                ~InSeq(inventory.val[i][2], ExcludedPaths(repo_tree))

Wit_C14 ==
    /\ IsWorkspaceTree(repo_tree)
    /\ found_path.ok
    /\ inventory.ok /\ inventory.val # <<>>
    /\ \E i \in 1..Len(repo_tree.entries) :
         LET e == repo_tree.entries[i]
         IN  /\ e.is_dir
             /\ InSeq(e.path, MemberPaths(repo_tree))
             /\ InSeq(e.path, ExcludedPaths(repo_tree))
             /\ e.manifest.package = Some(wanted)
             /\ \A j \in 1..Len(repo_tree.entries) :
                   repo_tree.entries[j].manifest.package = Some(wanted)
                     /\ ~InSeq(repo_tree.entries[j].path, ExcludedPaths(repo_tree)) => i < j

(* C15: on a workspace tree find_crate_path succeeds whenever a candidate  *)
(* that is not excluded declares the target package name, and returns the  *)
(* first such candidate in member-expansion order; on a tree without a     *)
(* workspace declaration it returns the root exactly when the root's       *)
(* package name is the target.                                             *)
DeclaresTarget(t, comps) ==
    ManifestAt(t, comps).state = "ok" /\ ManifestAt(t, comps).package = Some(wanted)
Matching(t) ==
    {i \in 1..Len(candidate_paths(t, t.root.workspace)) :
        DeclaresTarget(t, candidate_paths(t, t.root.workspace)[i])}
FirstOf(S) == CHOOSE i \in S : \A j \in S : i <= j

Cex_C15 ==
    found_path # NotCalled =>
        /\ IsWorkspaceTree(repo_tree) /\ Matching(repo_tree) # {} =>
             /\ found_path.ok
             /\ found_path.val =
                  candidate_paths(repo_tree, repo_tree.root.workspace)[FirstOf(Matching(repo_tree))]
        /\ repo_tree.root.state = "ok" /\ ~repo_tree.root.workspace.some =>
             /\ found_path.ok <=> repo_tree.root.package = Some(wanted)
             /\ found_path.ok => found_path.val = <<>>

(* C16: find_similar_crate returns the first inventory entry that meets    *)
(* the earliest of the three rules met by any entry (equality, containment *)
(* in either direction, prefix in either direction, all on lower-cased     *)
(* names), and none exactly when no entry meets any rule.                  *)
LowerName(i) == to_lowercase(inventory.val[i][1])
RuleHolds(r, i) ==
    LET t == to_lowercase(wanted)
    IN  IF r = 1 THEN LowerName(i) = t
        ELSE IF r = 2 THEN contains(LowerName(i), t) \/ contains(t, LowerName(i))
        ELSE starts_with(LowerName(i), t) \/ starts_with(t, LowerName(i))
Meeting(r) == {i \in 1..Len(inventory.val) : RuleHolds(r, i)}
RulesMet == {r \in 1..3 : Meeting(r) # {}}

Thm_C16 ==
    similar # NotCalled =>
        /\ RulesMet = {} <=> ~similar.val.some
        /\ RulesMet # {} =>
             similar.val = Some(inventory.val[FirstOf(Meeting(FirstOf(RulesMet)))])

Wit_C16 ==
    /\ similar # NotCalled
    /\ similar.val.some
    /\ Len(inventory.val) >= 2
    /\ 1 \in Meeting(2) \ Meeting(1)
    /\ Meeting(1) # {}
    /\ similar.val.val # inventory.val[1]

(* C17: a failed exact layout resolution does not end the run when the     *)
(* inventory of the tree has an entry that the similarity rules accept:    *)
(* the run goes on with that entry's path and writes it; the run fails at  *)
(* layout resolution only when the inventory is empty (or cannot be        *)
(* listed) or holds no similar entry, with different messages for the two. *)
Exact == find_crate_path(repo_tree, crate_info.name)
Inventory ==
    IF list_workspace_crates(repo_tree).ok THEN list_workspace_crates(repo_tree).val ELSE <<>>
Accepted(n) ==
    LET a == to_lowercase(n)
        b == to_lowercase(crate_info.name)
    IN  a = b \/ contains(a, b) \/ contains(b, a) \/ starts_with(a, b) \/ starts_with(b, a)
SimilarEntries == {i \in 1..Len(Inventory) : Accepted(Inventory[i][1])}
NoneSimilar == "Could not find crate in the repository"
LayoutErrors ==
    { "No Cargo.toml found in repository root", "Failed to parse Cargo.toml",
      "Repository is not a workspace and does not contain crate",
      "Crate not found in workspace members", NoneSimilar }
PastLayout == pc \in {"load", "add", "save", "done"} \/ (pc = "failed" /\ ncalls > 0)
LayoutFailed == pc = "failed" /\ run_error \in LayoutErrors

Thm_C17 ==
    /\ PastLayout /\ ~Exact.ok =>
         /\ SimilarEntries # {}
         /\ \E i \in SimilarEntries : actual_crate_path = join_all(clone_path, Inventory[i][2])
    /\ pc = "done" /\ ~Exact.ok =>
         EntriesOf(config, ExpectedGroupKey, crate_info.name)
            = {PatchConfig(to_string_lossy(actual_crate_path))}
    /\ LayoutFailed =>
         /\ ~Exact.ok
         /\ SimilarEntries = {}
         /\ Inventory = <<>> => run_error = Exact.err /\ run_error # NoneSimilar
         /\ Inventory # <<>> => run_error = NoneSimilar

Wit_C17 ==
    /\ pc = "done"
    /\ ~Exact.ok
    /\ actual_crate_path # clone_path
    /\ disk.state = "document"

(* C18: for a dependency classified Git the URL handed to clone is the     *)
(* declared URL after clean_repository_url, and a declared URL that fails  *)
(* the is_valid_git_url check ends the run before any clone or pull.       *)
DeclaredGit == Classified.val.dep_type.git

Cex_C18 ==
    ClassifiedAs("Git") =>
        /\ clean_repository_url(DeclaredGit).ok =>
             \A i \in 1..Len(clones) : clones[i] = clean_repository_url(DeclaredGit).val
        /\ ~clean_repository_url(DeclaredGit).ok =>
             /\ clones = <<>> /\ pulls = 0
             /\ pc \in {"start", "failed"}

(* C19: clean_repository_url of a URL that ends in /tree/<branch>, for any *)
(* branch, returns the URL without exactly that trailing suffix (before    *)
(* .git is appended); nothing else is removed, and nothing is removed from *)
(* a URL that does not end in such a suffix.                               *)
TreeSuffixes == {"/tree/master", "/tree/main", "/tree/dev"}
WithoutTreeSuffix(url) ==
    IF url # <<>> /\ url[Len(url)] \in TreeSuffixes THEN SubSeq(url, 1, Len(url) - 1) ELSE url

Cex_C19 ==
    cleaned_url # NotCalled /\ cleaned_url.ok =>
        cleaned_url.val \in {WithoutTreeSuffix(repo_url), WithoutTreeSuffix(repo_url) \o <<".git">>}

(* C20: clean_repository_url appends .git exactly when the host of the URL *)
(* is a recognized git hosting domain and the URL, tree suffix apart, does *)
(* not already end in .git; for any other host the result is the input,    *)
(* tree suffix apart.                                                      *)
RecognizedHosts == {"github.com"}
Host(url) == url[2]
TreeApart(url) == SelectSeq(url, LAMBDA t : t \notin TreeSuffixes)

Cex_C20 ==
    cleaned_url # NotCalled /\ cleaned_url.ok =>
        TreeApart(cleaned_url.val) =
            IF Host(repo_url) \in RecognizedHosts /\ ~ends_with(TreeApart(repo_url), <<".git">>)
            THEN TreeApart(repo_url) \o <<".git">>
            ELSE TreeApart(repo_url)

HasFetchScheme(s) == s # <<>> /\ s[1] \in Schemes
(* user@host:path *)
ScpStyle(s) ==
    /\ Len(s) >= 4
    /\ s[1] \in UserTokens
    /\ s[2] \notin {"/", ":"}
    /\ s[3] = ":"

(* C21: the fetchable-reference check accepts a string exactly when it     *)
(* starts with http://, https://, git:// or ssh:// or is an SCP-style      *)
(* user@host:path address, and is_git_url and is_valid_git_url give the    *)
(* same answer.                                                            *)
Cex_C21 ==
    git_url_checks.called =>
        /\ git_url_checks.is_git_url = git_url_checks.is_valid_git_url
        /\ git_url_checks.is_git_url <=> (HasFetchScheme(repo_url) \/ ScpStyle(repo_url))

(* C22: when the override document on disk exists but cannot be read or    *)
(* cannot be parsed, load_or_create returns an error, the run ends with    *)
(* that error, and the file is never written: it keeps its content.        *)
Thm_C22 ==
    loaded_from.state \in {"unreadable", "malformed"} =>
        /\ disk = loaded_from
        /\ writes = 0
        /\ ~config.loaded
        /\ ncalls > 0 =>
             /\ call.op = "load" /\ ~call.ok
             /\ pc = "failed"
             /\ run_error = (IF loaded_from.state = "unreadable"
                             THEN "Failed to read config file"
                             ELSE "Failed to parse config.toml")
Wit_C22 ==
    /\ loaded_from.state = "unreadable"
    /\ call.op = "load"
    /\ pc = "failed"
    /\ run_error = "Failed to read config file"

Colons(s) == Cardinality({i \in 1..Len(s) : s[i] = ":"})
(* scheme://[user@]host/path *)
SchemeForm(s) ==
    /\ Len(s) >= 3
    /\ s[1] \in Schemes
    /\ Colons(s) = 0
    /\ LET h == IF s[2] \in UserTokens THEN 3 ELSE 2
       IN  Len(s) > h /\ s[h] # "/" /\ s[h + 1] = "/"
(* git@host:owner/repo *)
GitAtForm(s) ==
    /\ Len(s) >= 4
    /\ s[1] = "git@"
    /\ s[3] = ":"
    /\ Colons(s) = 1
(* What follows the last separator of the address, without a final .git *)
LastSegment(s) ==
    LET e == ExpandTokens(s)
        last == CHOOSE i \in 1..Len(e) :
                    /\ e[i] \in {"/", ":"}
                    /\ \A j \in (i + 1)..Len(e) : e[j] \notin {"/", ":"}
        seg == SubSeq(e, last + 1, Len(e))
    IN  IF seg # <<>> /\ seg[Len(seg)] = ".git" THEN SubSeq(seg, 1, Len(seg) - 1) ELSE seg

(* C23: for a URL in scheme form or in git@host:owner/repo form,           *)
(* extract_crate_name_from_git_url returns the last path segment without   *)
(* a trailing .git; a git@ address that does not split into exactly two    *)
(* parts at ':' is an error.                                               *)
Thm_C23 ==
    extracted_name # NotCalled =>
        /\ SchemeForm(repo_url) \/ GitAtForm(repo_url) =>
             extracted_name = Ok(LastSegment(repo_url))
        /\ starts_with(repo_url, <<"git@">>) /\ Colons(repo_url) # 1 =>
             extracted_name = Err("Invalid git SSH URL format")
Wit_C23 ==
    /\ extracted_name = Ok(<<"serde">>)
    /\ GitAtForm(repo_url)
    /\ ends_with(repo_url, <<".git">>)

(* C27: clean_repository_url is idempotent: cleaning the result of a       *)
(* successful cleaning succeeds and returns the same string.               *)
Cex_C27 ==
    cleaned_again # NotCalled => cleaned_again = cleaned_url

(* C24: the fetch step makes exactly one transport call, pull when         *)
(* <dir>/<crate name> exists and clone when it does not; no other step     *)
(* makes a transport call, and layout resolution starts only from the      *)
(* return of that call.                                                    *)
Thm_C24 ==
    [][ /\ pc = "fetch" =>
             /\ pc' # "fetch"
             /\ IF fs.clone_path
                THEN pulls' = pulls + 1 /\ clones' = clones
                ELSE pulls' = pulls /\ clones' = Append(clones, crate_info.repository_url)
        /\ pc # "fetch" => pulls' = pulls /\ clones' = clones
        /\ pc' = "layout" => pc = "fetch"
        /\ pc \in {"layout", "load", "add", "save", "done"} => pulls + Len(clones) = 1
      ]_vars
Wit_C24 ==
    /\ pc = "layout"
    /\ pulls = 1
    /\ clones = <<>>
    /\ fs.clone_path

StrategyOrder == <<"agent", "id_rsa", "id_ecdsa", "id_ed25519", "id_dsa", "userpass">>
Rank(c) == CHOOSE i \in 1..Len(StrategyOrder) : StrategyOrder[i] = c
(* The strategies that can yield a credential of a type the remote allows *)
Yielding ==
    {c \in {"agent"} : credential_env.agent /\ "SSH_KEY" \in credential_env.allowed_types}
    \cup {k \in {KeyNames[i] : i \in 1..Len(KeyNames)} :
            credential_env.keys[k] = "usable" /\ "SSH_KEY" \in credential_env.allowed_types}
    \cup {c \in {"userpass"} :
            /\ "USER_PASS_PLAINTEXT" \in credential_env.allowed_types
            /\ \/ credential_env.config_username /\ credential_env.token
               \/ credential_env.env_userpass}

(* C25: credential strategies are tried in the order agent, id_rsa,        *)
(* id_ecdsa, id_ed25519, id_dsa, username/password; the first that yields  *)
(* a credential is offered first; against a remote that keeps rejecting,   *)
(* no credential is offered a second time and the call ends with an        *)
(* authentication error once every yielding strategy has been offered.     *)
Cex_C25 ==
    credential_env.allowed_types # {} =>
        /\ \A i, j \in 1..Len(offered) :
             i < j => Rank(offered[i]) < Rank(offered[j])
        /\ offered # <<>> =>
             \A c \in Yielding : Rank(offered[1]) <= Rank(c)
        /\ transport_state = "auth_error" =>
             \A c \in Yielding : \E i \in 1..Len(offered) : offered[i] = c

(* The package name declared by the manifest in the directory that the     *)
(* run chose for the override entry.                                       *)
PackageAtChosenPath ==
    ManifestAt(repo_tree, strip_prefix(actual_crate_path, clone_path).val.comps).package

(* C26: in every successful run the crate name of the written override     *)
(* entry is the package name declared in the directory the entry's path    *)
(* points to, also when the similarity fallback chose the directory.       *)
Cex_C26 ==
    pc = "done" =>
        /\ touched # {}
        /\ \A t \in touched : PackageAtChosenPath = Some(t[2])

FirstNamed(crates, name) ==
    CHOOSE i \in 1..Len(crates) :
        /\ crates[i][1] = name
        /\ \A j \in 1..(i - 1) : crates[j][1] # name

(* C28: find_crate_path succeeds with path p exactly when                  *)
(* list_workspace_crates succeeds and lists an entry with that name, and   *)
(* p is the path of the first such entry.                                  *)
Cex_C28 ==
    found_path # NotCalled /\ inventory # NotCalled =>
        /\ found_path.ok <=>
             (inventory.ok /\ \E i \in 1..Len(inventory.val) : inventory.val[i][1] = wanted)
        /\ found_path.ok =>
             found_path.val = inventory.val[FirstNamed(inventory.val, wanted)][2]

(* C29: a document that was newly created, after any sequence of           *)
(* add_patch, add_patch_with_source and remove_patch calls, failing calls  *)
(* included, never holds an override section without a group or a group   *)
(* without an entry.                                                       *)
Cex_C29 ==
    config.loaded /\ loaded_from.state = "missing" /\ config.patch.some =>
        /\ config.patch.val # {}
        /\ \A g \in config.patch.val : g[2] # {}

(* The resolved crate directory of the run, as an absolute path *)
ResolvedCrateDir ==
    IF project_env.local_path.abs THEN project_env.local_path
    ELSE join_all(project_env.cwd.val, project_env.local_path.comps)

(* C30: the path string stored in an override entry is absolute or, read   *)
(* relative to the directory that contains the .cargo directory chosen by  *)
(* get_config_dir, denotes the resolved crate directory; load_or_create    *)
(* and save of one run use the same document location.                     *)
Cex_C30 ==
    place_pc = "done" =>
        /\ placement.load_dir = placement.save_dir
        /\ LET stored == PathFromStr(placement.path_str.val)
           IN  \/ stored.abs
               \/ join_all(parent(placement.load_dir).val, stored.comps) = ResolvedCrateDir

====
